---- MODULE Spec2Model ----
(***************************************************************************)
(* A model of the drone_trajectories scripts: velocity derivation,         *)
(* windowed segmentation and the statistics / whitening pipeline.          *)
(*                                                                         *)
(* Floating-point values are modelled as exact rationals with the IEEE     *)
(* special values: a value is a pair <<n, d>> with d >= 0, reduced;        *)
(* <<0, 0>> is NaN, <<1, 0>> is +inf and <<-1, 0>> is -inf.                *)
(***************************************************************************)
EXTENDS Integers, Sequences, FiniteSets, TLC

(***************************************************************************)
(* Bounds of the model.                                                    *)
(***************************************************************************)
\* Longest trajectory handed to the velocity routines.
MaxN == 3

\* Longest window (inp_seg_len, out_seg_len) of a segmentation run.
MaxSeg == 5

\* A segmented file has at most 2 * MaxSeg + MaxExtra rows.
MaxExtra == 1

\* Degree of the spline fitted to every window (splrep(..., k=3)).
SplineK == 3

(***************************************************************************)
(* Floating-point arithmetic (numpy / pandas element-wise operators).      *)
(***************************************************************************)
Abs(x) == IF x < 0 THEN -x ELSE x

Sign(x) == IF x < 0 THEN -1 ELSE IF x > 0 THEN 1 ELSE 0

RECURSIVE Gcd(_, _)
Gcd(a, b) == IF b = 0 THEN a ELSE Gcd(b, a % b)

\* The float with numerator n and denominator d (d may be negative or zero).
Float(n, d) ==
    IF d = 0 THEN <<Sign(n), 0>>
    ELSE LET g == Gcd(Abs(n), Abs(d))
             s == Sign(d)
         IN  <<(s * n) \div g, (s * d) \div g>>

NaN == <<0, 0>>

F(i) == <<i, 1>>

isnan(x) == x = NaN

isfinite(x) == x[2] > 0

FNeg(x) == <<-x[1], x[2]>>

FAdd(x, y) ==
    IF isnan(x) \/ isnan(y) THEN NaN
    ELSE IF x[2] = 0 /\ y[2] = 0 THEN (IF x[1] = y[1] THEN x ELSE NaN)
    ELSE IF x[2] = 0 THEN x
    ELSE IF y[2] = 0 THEN y
    ELSE Float(x[1] * y[2] + y[1] * x[2], x[2] * y[2])

FSub(x, y) == FAdd(x, FNeg(y))

FMul(x, y) ==
    IF isnan(x) \/ isnan(y) THEN NaN
    ELSE IF x[2] = 0 \/ y[2] = 0
         THEN <<Sign(x[1]) * Sign(y[1]), 0>>
    ELSE Float(x[1] * y[1], x[2] * y[2])

\* x / y; a zero divisor is +0.0 (a difference of equal values), so the sign
\* of the quotient is that of the dividend, and 0/0 is NaN.
FDiv(x, y) ==
    IF isnan(x) \/ isnan(y) THEN NaN
    ELSE IF x[2] = 0 /\ y[2] = 0 THEN NaN
    ELSE IF y[2] = 0 THEN F(0)
    ELSE IF x[2] = 0 THEN <<x[1] * (IF y[1] < 0 THEN -1 ELSE 1), 0>>
    ELSE IF y[1] = 0 THEN <<Sign(x[1]), 0>>
    ELSE Float(x[1] * y[2], x[2] * y[1])

\* x < y in IEEE order: false whenever an operand is NaN.
FLt(x, y) ==
    IF isnan(x) \/ isnan(y) THEN FALSE
    ELSE IF x[2] > 0 /\ y[2] > 0 THEN x[1] * y[2] < y[1] * x[2]
    ELSE IF x[2] = 0 /\ y[2] = 0 THEN x[1] < y[1]
    ELSE IF x[2] = 0 THEN x[1] < 0
    ELSE y[1] > 0

\* np.sqrt(q) is kept symbolic: the value [sqrt_of |-> q] is the square root
\* of q.  The square root is monotone, so the order of two roots is that of
\* their radicands.
sqrt(q) == [sqrt_of |-> q]

\* Python's max(a, b) on two roots: b when b > a, else a (so a NaN b loses).
max(a, b) == IF FLt(a.sqrt_of, b.sqrt_of) THEN b ELSE a

\* The exact square root of a float that is the square of a rational; the
\* inputs of the statistics scripts are chosen so that every root taken
\* by the Cholesky factorisation is of this kind.
ExactSqrt(q) ==
    LET n == CHOOSE k \in 0..q[1] : k * k = q[1]
        d == CHOOSE k \in 1..q[2] : k * k = q[2]
    IN  Float(n, d)

RECURSIVE FSum(_)
FSum(s) == IF s = <<>> THEN F(0) ELSE FAdd(Head(s), FSum(Tail(s)))

(***************************************************************************)
(* pandas Series / DataFrame helpers.  A Series is a sequence of floats, a *)
(* DataFrame a sequence of rows (records of floats), in positional order.  *)
(***************************************************************************)
Column(df, c) == [i \in 1..Len(df) |-> df[i][c]]

\* Series.diff(): the first element is NaN.
diff(s) == [i \in 1..Len(s) |-> IF i = 1 THEN NaN ELSE FSub(s[i], s[i - 1])]

\* Series.shift(-1): every element moves one place up, the last is NaN.
shift_m1(s) == [i \in 1..Len(s) |-> IF i = Len(s) THEN NaN ELSE s[i + 1]]

\* Element-wise a / b of two Series of the same length.
SeriesDiv(a, b) == [i \in 1..Len(a) |-> FDiv(a[i], b[i])]

\* df.iloc[a:b] with 0 <= a, in Python's half-open 0-based convention.
iloc(df, a, b) ==
    LET hi == IF b > Len(df) THEN Len(df) ELSE b
    IN  IF a >= hi THEN <<>> ELSE SubSeq(df, a + 1, hi)

\* DataFrame.dropna(subset=cols): drop every row with a NaN in cols.
dropna(df, cols) == SelectSeq(df, LAMBDA r : \A c \in cols : ~isnan(r[c]))

PosCols == {"tx", "ty", "tz"}

VelCols == {"vx", "vy", "vz"}

(***************************************************************************)
(* Velocity derivation.                                                    *)
(***************************************************************************)
\* The forward difference without the shift: a plausible slip.
compute_velocity_noshift(df) ==
    LET dt == diff(Column(df, "timestamp"))
        dx == diff(Column(df, "tx"))
        dy == diff(Column(df, "ty"))
        dz == diff(Column(df, "tz"))
        vx == SeriesDiv(dx, dt)
        vy == SeriesDiv(dy, dt)
        vz == SeriesDiv(dz, dt)
        full == [i \in 1..Len(df) |->
                    [timestamp |-> df[i].timestamp,
                     tx |-> df[i].tx, ty |-> df[i].ty, tz |-> df[i].tz,
                     vx |-> vx[i], vy |-> vy[i], vz |-> vz[i]]]
    IN  iloc(full, 0, Len(full) - 1)

\* compute_velocity.py: forward differences, last row removed.
compute_velocity(df) ==
    LET dt == shift_m1(diff(Column(df, "timestamp")))
        dx == shift_m1(diff(Column(df, "tx")))
        dy == shift_m1(diff(Column(df, "ty")))
        dz == shift_m1(diff(Column(df, "tz")))
        vx == SeriesDiv(dx, dt)
        vy == SeriesDiv(dy, dt)
        vz == SeriesDiv(dz, dt)
        full == [i \in 1..Len(df) |->
                    [timestamp |-> df[i].timestamp,
                     tx |-> df[i].tx, ty |-> df[i].ty, tz |-> df[i].tz,
                     vx |-> vx[i], vy |-> vy[i], vz |-> vz[i]]]
    IN  iloc(full, 0, Len(full) - 1)

\* Backward differences with the last row removed instead of the first.
data_distribution_compute_velocity_drop_last(data) ==
    LET dt == diff(Column(data, "timestamp"))
        vx == SeriesDiv(diff(Column(data, "tx")), dt)
        vy == SeriesDiv(diff(Column(data, "ty")), dt)
        vz == SeriesDiv(diff(Column(data, "tz")), dt)
        full == [i \in 1..Len(data) |->
                    [timestamp |-> data[i].timestamp,
                     tx |-> data[i].tx, ty |-> data[i].ty, tz |-> data[i].tz,
                     vx |-> vx[i], vy |-> vy[i], vz |-> vz[i]]]
    IN  iloc(full, 0, Len(full) - 1)

\* data_distribution.py: backward differences, first row removed.
data_distribution_compute_velocity(data) ==
    LET dt == diff(Column(data, "timestamp"))
        vx == SeriesDiv(diff(Column(data, "tx")), dt)
        vy == SeriesDiv(diff(Column(data, "ty")), dt)
        vz == SeriesDiv(diff(Column(data, "tz")), dt)
        full == [i \in 1..Len(data) |->
                    [timestamp |-> data[i].timestamp,
                     tx |-> data[i].tx, ty |-> data[i].ty, tz |-> data[i].tz,
                     vx |-> vx[i], vy |-> vy[i], vz |-> vz[i]]]
    IN  iloc(full, 1, Len(full))

\* df[['tx','ty','tz']].diff() / df['timestamp'].diff().values[:, None]
\* followed by dropna(): the frame keeps the columns tx, ty, tz only.
diff_over_dt_dropna(df) ==
    LET dt == diff(Column(df, "timestamp"))
        vx == SeriesDiv(diff(Column(df, "tx")), dt)
        vy == SeriesDiv(diff(Column(df, "ty")), dt)
        vz == SeriesDiv(diff(Column(df, "tz")), dt)
        df_velocity == [i \in 1..Len(df) |->
                           [tx |-> vx[i], ty |-> vy[i], tz |-> vz[i]]]
    IN  dropna(df_velocity, PosCols)

\* trajectory_to_segmetns.py: compute_velocity(df).
trajectory_to_segmetns_compute_velocity(df) == diff_over_dt_dropna(df)

(***************************************************************************)
(* Windowed segmentation: process_single_trajectory.py and                 *)
(* process_multiple_trajectories.py.                                       *)
(***************************************************************************)
\* np.arange(m) as a Series of floats.
arange(m) == [i \in 1..m |-> F(i - 1)]

\* scipy's splrep(x, y, k) with the default s = 0 (no weights): the
\* interpolating spline.  Its knots are x[0] k+1 times, the interior knots
\* x[2] .. x[m-3], and x[m-1] k+1 times.  The coefficients are a function
\* of (x, y) that the model keeps symbolic: fit |-> y.  splrep raises
\* TypeError("m > k must hold") when there are no more than k points.
splrep(x, y, k) ==
    LET m == Len(x)
    IN  IF m <= k THEN [raised |-> "TypeError", t |-> <<>>, c |-> <<>>]
        ELSE [raised |-> "none",
              t |-> [j \in 1..(m + k + 1) |->
                        IF j <= k + 1 THEN x[1]
                        ELSE IF j > m THEN x[m]
                        ELSE x[j - 2]],
              c |-> [fit |-> y]]

\* The same with the last two axes exchanged: a plausible slip.
transpose_2_1_0(segments) ==
    [t \in 1..Len(segments[1][1]) |->
        [c \in 1..Len(segments[1]) |->
            [i \in 1..Len(segments) |-> segments[i][c][t]]]]

\* np.array(segments).transpose(1, 2, 0) of a non-empty list of (3, L)
\* arrays: result[c][t][i] = segments[i][c][t].
transpose_1_2_0(segments) ==
    [c \in 1..Len(segments[1]) |->
        [t \in 1..Len(segments[1][1]) |->
            [i \in 1..Len(segments) |-> segments[i][c][t]]]]

\* df.iloc[a:b][cols].values.T : one row of the result per column.
window(df, a, b, cols) ==
    [c \in 1..Len(cols) |-> Column(iloc(df, a, b), cols[c])]

\* range(0, n) of Python, as the sequence 0 .. n-1.
range0(n) == [i \in 1..(IF n > 0 THEN n ELSE 0) |-> i - 1]

\* The segment loop and the final transposition, shared by both scripts.
\* frame is the DataFrame that is windowed, cols its three channels.
segment_frame(frame, inp_seg_len, out_seg_len, cols) ==
    LET starts == range0(Len(frame) - inp_seg_len - out_seg_len + 1)
        ins == [j \in 1..Len(starts) |->
                   window(frame, starts[j], starts[j] + inp_seg_len, cols)]
        outs == [j \in 1..Len(starts) |->
                    window(frame, starts[j] + inp_seg_len,
                           starts[j] + inp_seg_len + out_seg_len, cols)]
        tck_in == [j \in 1..Len(starts) |->
                      [c \in 1..3 |-> splrep(arange(inp_seg_len), ins[j][c], SplineK)]]
        tck_out == [j \in 1..Len(starts) |->
                       [c \in 1..3 |-> splrep(arange(out_seg_len), outs[j][c], SplineK)]]
        spline_raises ==
            /\ Len(starts) > 0
            /\ \/ tck_in[1][1].raised /= "none"
               \/ tck_out[1][1].raised /= "none"
    IN  IF spline_raises
        THEN [raised |-> "TypeError"]
        ELSE IF Len(starts) = 0
        \* np.array([]) has one axis: transpose(1, 2, 0) raises ValueError.
        THEN [raised |-> "ValueError"]
        ELSE [raised |-> "none",
              input_segments |-> transpose_1_2_0(ins),
              output_segments |-> transpose_1_2_0(outs),
              tck_input |-> tck_in,
              tck_output |-> tck_out]

\* process_trajectory with the four spline lists returned in reverse order.
process_trajectory_splines_reversed(df, inp_seg_len, out_seg_len, cv, pv) ==
    LET frame == IF cv /\ ~pv THEN diff_over_dt_dropna(df) ELSE df
        cols == IF pv THEN <<"vx", "vy", "vz">> ELSE <<"tx", "ty", "tz">>
        r == segment_frame(frame, inp_seg_len, out_seg_len, cols)
        n == Len(r.tck_input)
    IN  IF r.raised /= "none" THEN r
        ELSE [raised |-> "none",
              input_segments |-> r.input_segments,
              output_segments |-> r.output_segments,
              knots_input |-> [j \in 1..n |-> r.tck_input[n + 1 - j][1].t],
              coeffs_input |-> [j \in 1..n |-> r.tck_input[n + 1 - j][1].c],
              knots_output |-> [j \in 1..n |-> r.tck_output[n + 1 - j][1].t],
              coeffs_output |-> [j \in 1..n |-> r.tck_output[n + 1 - j][1].c]]

\* process_multiple_trajectories.py: process_trajectory.
process_trajectory(df, inp_seg_len, out_seg_len, cv, pv) ==
    LET frame == IF cv /\ ~pv THEN diff_over_dt_dropna(df) ELSE df
        cols == IF pv THEN <<"vx", "vy", "vz">> ELSE <<"tx", "ty", "tz">>
        r == segment_frame(frame, inp_seg_len, out_seg_len, cols)
    IN  IF r.raised /= "none" THEN r
        ELSE [raised |-> "none",
              input_segments |-> r.input_segments,
              output_segments |-> r.output_segments,
              knots_input |-> [j \in 1..Len(r.tck_input) |-> r.tck_input[j][1].t],
              coeffs_input |-> [j \in 1..Len(r.tck_input) |-> r.tck_input[j][1].c],
              knots_output |-> [j \in 1..Len(r.tck_output) |-> r.tck_output[j][1].t],
              coeffs_output |-> [j \in 1..Len(r.tck_output) |-> r.tck_output[j][1].c]]

\* process_single_trajectory.py: process_trajectory.
process_trajectory_single(df, inp_seg_len, out_seg_len, cv) ==
    LET frame == IF cv THEN diff_over_dt_dropna(df) ELSE df
        r == segment_frame(frame, inp_seg_len, out_seg_len, <<"tx", "ty", "tz">>)
    IN  IF r.raised /= "none" THEN r
        ELSE [raised |-> "none",
              input_segments |-> r.input_segments,
              output_segments |-> r.output_segments,
              knots_input |-> [j \in 1..Len(r.tck_input) |-> r.tck_input[j][1].t],
              coeffs_input |-> [j \in 1..Len(r.tck_input) |-> r.tck_input[j][1].c],
              knots_output |-> [j \in 1..Len(r.tck_output) |-> r.tck_output[j][1].t],
              coeffs_output |-> [j \in 1..Len(r.tck_output) |-> r.tck_output[j][1].c]]

(***************************************************************************)
(* State.                                                                  *)
(***************************************************************************)
VARIABLES
    \* velocity routines applied to one DataFrame
    vel_df,                 \* the DataFrame read from a file
    vel_routine,            \* the routine that was applied, "none" before
    vel_out,                \* the DataFrame it returned
    \* segmentation scripts
    tool,                   \* "multiple" or "single": the script that runs
    listing,                \* os.listdir(dir_path), or the one file_path
    inp_seg_len,
    out_seg_len,
    cv_flag,                \* args.compute_velocity
    pv_flag,                \* args.precomputed_velocity
    idx,                    \* position of the for loop in the listing
    all_input_segments,
    all_output_segments,
    all_knots_input,
    all_coeffs_input,
    all_knots_output,
    all_coeffs_output,
    seg_pc,                 \* "loop", "saved" or "raised"
    seg_raised,             \* the exception that ended the run, or "none"
    npz,                    \* the archive written by np.savez, <<>> before
    \* compute_stats.py
    all_files,              \* glob("*.csv") + glob("*.txt") of the directory
    st_i,                   \* position of the running for loop in all_files
    st_pc,                  \* "pass1", "save", "pass2", "plot", "done", ...
    position_data,
    velocity_data,
    vel_magnitude_data,
    max_pos_length,
    max_vel_magnitude,
    pos_stats,
    vel_stats,
    st_raised,              \* the exception that ended the run, or "none"
    st_dirs,                \* the directories os.makedirs created
    st_npz,                 \* the statistics archives written, in order
    st_csv,                 \* the transformed files written, in order
    \* resampling routines applied to one DataFrame
    res_df,                 \* the DataFrame read from a file
    res_dt,                 \* the sampling time
    res_routine,            \* the routine that was applied, "none" before
    res_xp,                 \* the timestamps handed to the interpolator
    res_out,                \* the DataFrame it returned
    \* compute_velocity.py: process_files
    cv_dir,                 \* os.listdir(input_dir): the files with their cells
    cv_resample,            \* --resample
    cv_velocity_only,       \* --velocity-only
    cv_sample_time,         \* --sample-time
    cv_file_list,           \* file_list
    cv_i,                   \* position of the for loop in file_list
    cv_pc,                  \* "start", "loop", "done", "raised", "idle"
    cv_raised,              \* the exception that ended the run, or "none"
    cv_dirs,                \* the directories os.makedirs created
    cv_written,             \* the files written by to_csv, in order
    \* generate_random_trajectories.py: the normal and its rotation matrix
    rot_pc,                 \* "draw", "normalize", "rotate", "done", "idle"
    rot_normal,             \* the normal vector of the trajectory plane
    rot_matrix,             \* rotation_matrix_from_vectors([0, 0, 1], normal)
    \* generate_random_trajectories.py: the linear trajectories
    gen_dt,                 \* --dt
    gen_npoints,            \* --npoints
    gen_ntraj,              \* --ntraj
    gen_pc,                 \* "start", "lines", "done", "idle"
    gen_i,                  \* index of the next linear trajectory
    gen_dirs,               \* the directories os.makedirs created
    gen_files,              \* the files written by save_to_txt, in order
    \* trajectory_to_segmetns.py
    div_listing,            \* os.listdir(dir_path) with the files' rows
    div_seg_len,            \* seg_len
    div_cv,                 \* --compute_velocity
    div_i,                  \* position of the for loop in the listing
    div_pc,                 \* "loop", "saved", "raised", "idle"
    div_raised,             \* the exception that ended the run, or "none"
    segment_dict,           \* <<filename, segments_2D>> in insertion order
    div_npz,                \* the archive written by np.savez, <<>> before
    \* data_distribution.py: process_files
    dist_listing,           \* os.listdir(directory_path) with the entries' contents
    dist_files,             \* files
    dist_i,                 \* position of the for loop in files
    dist_pc,                \* "start", "loop", "done", "returned", "idle"
    dist_values,            \* tx_values .. vz_values
    dist_printed,           \* the files reported by the except clause, in order
    dist_stats,             \* stats, <<>> before it is computed
    \* generate_random_trajectories.py: generate_speed
    min_speed,              \* min_speed
    max_speed,              \* max_speed
    spd_u,                  \* the fractions np.random.uniform draws in [0, 1)
    spd_choice,             \* the index np.random.choice draws
    spd_pc,                 \* "call", "returned", "idle"
    spd_result              \* what generate_speed returned

velVars == <<vel_df, vel_routine, vel_out>>

statVars == <<all_files, st_i, st_pc, position_data, velocity_data,
              vel_magnitude_data, max_pos_length, max_vel_magnitude,
              pos_stats, vel_stats, st_raised, st_dirs, st_npz, st_csv>>

segVars == <<tool, listing, inp_seg_len, out_seg_len, cv_flag, pv_flag, idx,
             all_input_segments, all_output_segments, all_knots_input,
             all_coeffs_input, all_knots_output, all_coeffs_output,
             seg_pc, seg_raised, npz>>

resVars == <<res_df, res_dt, res_routine, res_xp, res_out>>

cvVars == <<cv_dir, cv_resample, cv_velocity_only, cv_sample_time, cv_file_list,
            cv_i, cv_pc, cv_raised, cv_dirs, cv_written>>

rotVars == <<rot_pc, rot_normal, rot_matrix>>

genVars == <<gen_dt, gen_npoints, gen_ntraj, gen_pc, gen_i, gen_dirs, gen_files>>

divVars == <<div_listing, div_seg_len, div_cv, div_i, div_pc, div_raised,
             segment_dict, div_npz>>

distVars == <<dist_listing, dist_files, dist_i, dist_pc, dist_values,
              dist_printed, dist_stats>>

spdVars == <<min_speed, max_speed, spd_u, spd_choice, spd_pc, spd_result>>

vars == <<velVars, segVars, statVars, resVars, cvVars, rotVars, genVars, divVars,
          distVars, spdVars>>

\* What the actions of one script family leave unchanged.
segOthers == <<velVars, statVars, resVars, cvVars, rotVars, genVars, divVars, distVars, spdVars>>

velOthers == <<segVars, statVars, resVars, cvVars, rotVars, genVars, divVars, distVars, spdVars>>

statOthers == <<velVars, segVars, resVars, cvVars, rotVars, genVars, divVars, distVars, spdVars>>

resOthers == <<velVars, segVars, statVars, cvVars, rotVars, genVars, divVars, distVars, spdVars>>

cvOthers == <<velVars, segVars, statVars, resVars, rotVars, genVars, divVars, distVars, spdVars>>

rotOthers == <<velVars, segVars, statVars, resVars, cvVars, genVars, divVars, distVars, spdVars>>

genOthers == <<velVars, segVars, statVars, resVars, cvVars, rotVars, divVars, distVars, spdVars>>

divOthers == <<velVars, segVars, statVars, resVars, cvVars, rotVars, genVars, distVars, spdVars>>

distOthers == <<velVars, segVars, statVars, resVars, cvVars, rotVars, genVars, divVars, spdVars>>

spdOthers == <<velVars, segVars, statVars, resVars, cvVars, rotVars, genVars, divVars, distVars>>

(***************************************************************************)
(* Inputs of the segmentation scripts.                                     *)
(***************************************************************************)
\* Names a directory may hold; only .csv and .txt files are trajectories.
FileNames == {"a.csv", "b.txt", "notes.md"}

endswith_csv_or_txt(name) == name \in {"a.csv", "b.txt"}

Base(name) == IF name = "a.csv" THEN 0 ELSE 500

\* Row counts of a trajectory file: below, at and above the shortest
\* length that yields a segment.
TLens == (2 * MaxSeg - 1)..(2 * MaxSeg + MaxExtra)

\* Window lengths: from one the cubic spline cannot fit up to MaxSeg.
SegLens == (MaxSeg - 2)..MaxSeg

\* "inc": strictly increasing timestamps, every row different.
\* "stall": the second row repeats the first (same timestamp and position).
Patterns == {"inc", "stall"}

FileRow(base, k) ==
    [timestamp |-> F(k),
     tx |-> F(base + k * k), ty |-> F(base + 200 + k), tz |-> F(base + 300 + 2 * k),
     vx |-> F(base + 400 + k), vy |-> F(base + 430 + k), vz |-> F(base + 460 + k)]

FileRows(base, T, pat) ==
    [k \in 1..T |-> IF pat = "stall" /\ k = 2 THEN FileRow(base, 1)
                    ELSE FileRow(base, k)]

\* The contents a trajectory file may have; only a.csv may stall.
TrajectoryEntries ==
    {e \in {[name |-> nm, rows |-> FileRows(Base(nm), T, pat)] :
               nm \in {"a.csv", "b.txt"}, T \in TLens, pat \in Patterns} :
        e.name = "b.txt" => e.rows = FileRows(Base("b.txt"), Len(e.rows), "inc")}

DirEntries == TrajectoryEntries \cup {[name |-> "notes.md", rows |-> <<>>]}

\* os.listdir(dir_path): a directory holding up to two of the names, in
\* any order.
Listings ==
    {l \in UNION {[1..n -> DirEntries] : n \in 0..(Cardinality(FileNames) - 1)} :
        \A i, j \in 1..Len(l) : i /= j => l[i].name /= l[j].name}

\* pd.read_csv(file_path)
read_trajectory(entry) == entry.rows

(***************************************************************************)
(* np.concatenate(arrays, axis=2) of a non-empty list of tensors with the  *)
(* same first two dimensions.                                              *)
(***************************************************************************)
RECURSIVE Flatten(_)
Flatten(ss) == IF ss = <<>> THEN <<>> ELSE Head(ss) \o Flatten(Tail(ss))

\* Keeping the last array only, as if the list were overwritten.
concatenate_last_only(arrays) == arrays[Len(arrays)]

concatenate_axis2(arrays) ==
    [c \in 1..Len(arrays[1]) |->
        [t \in 1..Len(arrays[1][1]) |->
            Flatten([a \in 1..Len(arrays) |-> arrays[a][c][t]])]]

\* tensor.shape[2]
shape2(tensor) == Len(tensor[1][1])

(***************************************************************************)
(* process_multiple_trajectories.py, the main block.                       *)
(***************************************************************************)
SegIdle ==
    /\ tool = "none" /\ listing = <<>> /\ inp_seg_len = 0 /\ out_seg_len = 0
    /\ cv_flag = FALSE /\ pv_flag = FALSE /\ idx = 0
    /\ all_input_segments = <<>> /\ all_output_segments = <<>>
    /\ all_knots_input = <<>> /\ all_coeffs_input = <<>>
    /\ all_knots_output = <<>> /\ all_coeffs_output = <<>>
    /\ seg_pc = "idle" /\ seg_raised = "none" /\ npz = <<>>

SegInit ==
    /\ tool \in {"multiple", "single"}
    /\ IF tool = "multiple"
       THEN listing \in Listings /\ pv_flag \in BOOLEAN
       ELSE listing \in {<<e>> : e \in TrajectoryEntries} /\ pv_flag = FALSE
    /\ inp_seg_len \in SegLens
    /\ out_seg_len \in SegLens
    /\ cv_flag \in BOOLEAN
    /\ idx = 1
    /\ all_input_segments = <<>> /\ all_output_segments = <<>>
    /\ all_knots_input = <<>> /\ all_coeffs_input = <<>>
    /\ all_knots_output = <<>> /\ all_coeffs_output = <<>>
    /\ seg_pc = "loop" /\ seg_raised = "none" /\ npz = <<>>

\* One iteration of "for filename in os.listdir(dir_path)".
MainLoopStep ==
    /\ tool = "multiple" /\ seg_pc = "loop" /\ idx <= Len(listing)
    /\ LET entry == listing[idx]
           r == process_trajectory(read_trajectory(entry), inp_seg_len,
                                   out_seg_len, cv_flag, pv_flag)
       IN  IF ~endswith_csv_or_txt(entry.name)
           THEN /\ idx' = idx + 1
                /\ UNCHANGED <<all_input_segments, all_output_segments,
                               all_knots_input, all_coeffs_input,
                               all_knots_output, all_coeffs_output,
                               seg_pc, seg_raised>>
           ELSE IF r.raised /= "none"
           THEN /\ seg_pc' = "raised"
                /\ seg_raised' = r.raised
                /\ UNCHANGED <<idx, all_input_segments, all_output_segments,
                               all_knots_input, all_coeffs_input,
                               all_knots_output, all_coeffs_output>>
           ELSE /\ all_input_segments' = Append(all_input_segments, r.input_segments)
                /\ all_output_segments' = Append(all_output_segments, r.output_segments)
                /\ all_knots_input' = all_knots_input \o r.knots_input
                /\ all_coeffs_input' = all_coeffs_input \o r.coeffs_input
                /\ all_knots_output' = all_knots_output \o r.knots_output
                /\ all_coeffs_output' = all_coeffs_output \o r.coeffs_output
                /\ idx' = idx + 1
                /\ UNCHANGED <<seg_pc, seg_raised>>
    /\ UNCHANGED <<tool, listing, inp_seg_len, out_seg_len, cv_flag, pv_flag, npz>>
    /\ UNCHANGED segOthers

\* The archive np.savez writes: the tensors, the counts and, for every
\* segment index below the count, the knots and coefficients stored there.
npz_data(ins, outs, kin, cin, kout, cout) ==
    [input_segments |-> ins,
     output_segments |-> outs,
     num_input_segments |-> shape2(ins),
     num_output_segments |-> shape2(outs),
     inp_seg_len |-> inp_seg_len,
     out_seg_len |-> out_seg_len,
     knots_input |-> [i \in 1..shape2(ins) |-> kin[i]],
     coeffs_input |-> [i \in 1..shape2(ins) |-> cin[i]],
     knots_output |-> [i \in 1..shape2(outs) |-> kout[i]],
     coeffs_output |-> [i \in 1..shape2(outs) |-> cout[i]]]

\* After the loop: concatenate, count, build the archive and save it.
\* np.concatenate raises ValueError on an empty list of arrays.
MainSave ==
    /\ tool = "multiple" /\ seg_pc = "loop" /\ idx > Len(listing)
    /\ IF all_input_segments = <<>>
       THEN /\ seg_pc' = "raised"
            /\ seg_raised' = "ValueError"
            /\ UNCHANGED npz
       ELSE /\ npz' = npz_data(concatenate_axis2(all_input_segments),
                               concatenate_axis2(all_output_segments),
                               all_knots_input, all_coeffs_input,
                               all_knots_output, all_coeffs_output)
            /\ seg_pc' = "saved"
            /\ UNCHANGED seg_raised
    /\ UNCHANGED <<tool, listing, inp_seg_len, out_seg_len, cv_flag, pv_flag, idx,
                   all_input_segments, all_output_segments, all_knots_input,
                   all_coeffs_input, all_knots_output, all_coeffs_output>>
    /\ UNCHANGED segOthers

\* process_single_trajectory.py, the main block: read, segment, save.
SingleMain ==
    /\ tool = "single" /\ seg_pc = "loop"
    /\ LET r == process_trajectory_single(read_trajectory(listing[1]),
                                          inp_seg_len, out_seg_len, cv_flag)
       IN  IF r.raised /= "none"
           THEN /\ seg_pc' = "raised"
                /\ seg_raised' = r.raised
                /\ UNCHANGED npz
           ELSE /\ npz' = npz_data(r.input_segments, r.output_segments,
                                   r.knots_input, r.coeffs_input,
                                   r.knots_output, r.coeffs_output)
                /\ seg_pc' = "saved"
                /\ UNCHANGED seg_raised
    /\ UNCHANGED <<tool, listing, inp_seg_len, out_seg_len, cv_flag, pv_flag, idx,
                   all_input_segments, all_output_segments, all_knots_input,
                   all_coeffs_input, all_knots_output, all_coeffs_output>>
    /\ UNCHANGED segOthers

(***************************************************************************)
(* The velocity routines, each applied to a DataFrame read from a file.    *)
(***************************************************************************)
TimeVals == {0, 1, 2}

PosVals == {<<0, 0, 0>>, <<1, 0, 0>>, <<2, 0, 0>>, <<1, 2, 3>>}

VelRows ==
    {[timestamp |-> F(t), tx |-> F(p[1]), ty |-> F(p[2]), tz |-> F(p[3])] :
        t \in TimeVals, p \in PosVals}

VelIdle == vel_df = <<>> /\ vel_routine = "idle" /\ vel_out = <<>>

VelInit ==
    /\ vel_df \in UNION {[1..n -> VelRows] : n \in 0..MaxN}
    /\ vel_routine = "none"
    /\ vel_out = <<>>

\* compute_velocity.py: df = compute_velocity(df)
ComputeVelocityForward ==
    /\ vel_routine = "none"
    /\ vel_routine' = "forward"
    /\ vel_out' = compute_velocity(vel_df)
    /\ UNCHANGED <<vel_df, velOthers>>

\* data_distribution.py: df = compute_velocity(df)
ComputeVelocityBackward ==
    /\ vel_routine = "none"
    /\ vel_routine' = "backward"
    /\ vel_out' = data_distribution_compute_velocity(vel_df)
    /\ UNCHANGED <<vel_df, velOthers>>

\* trajectory_to_segmetns.py: compute_velocity(df)
ComputeVelocityDropna ==
    /\ vel_routine = "none"
    /\ vel_routine' = "dropna"
    /\ vel_out' = trajectory_to_segmetns_compute_velocity(vel_df)
    /\ UNCHANGED <<vel_df, velOthers>>

(***************************************************************************)
(* compute_stats.py: linear algebra on 3-vectors and 3 x 3 matrices.       *)
(***************************************************************************)
\* df[cols].values: one 3-vector per row.
values(df, cols) ==
    [i \in 1..Len(df) |-> <<df[i][cols[1]], df[i][cols[2]], df[i][cols[3]]>>]

\* A local variable assignment "x = value; rest(x)": the value is computed
\* once and rest is evaluated with it.
Assign(value, rest(_)) == CHOOSE r \in {rest(x) : x \in {value}} : TRUE

\* A 3-vector and a 3 x 3 matrix given by their entries.
Vec3(f(_)) == <<f(1), f(2), f(3)>>

Mat3(f(_, _)) == << <<f(1, 1), f(1, 2), f(1, 3)>>,
                    <<f(2, 1), f(2, 2), f(2, 3)>>,
                    <<f(3, 1), f(3, 2), f(3, 3)>> >>

\* DataFrame.mean(): the mean of every column.
mean(X) ==
    LET mu(c) == FDiv(FSum([i \in 1..Len(X) |-> X[i][c]]), F(Len(X)))
    IN  Vec3(mu)

\* DataFrame.cov(): the sample covariance, normalised by n - 1.
cov(X) ==
    LET s(m, a, b) == FDiv(FSum([i \in 1..Len(X) |->
                                   FMul(FSub(X[i][a], m[a]), FSub(X[i][b], m[b]))]),
                           F(Len(X) - 1))
    IN  Assign(mean(X), LAMBDA m : Mat3(LAMBDA a, b : s(m, a, b)))

\* DataFrame.std(): the square root of every column's sample variance.
std(X) ==
    LET S == cov(X)
        sd(c) == sqrt(S[c][c])
    IN  Vec3(sd)

det(A) ==
    FAdd(FSub(FMul(A[1][1], FSub(FMul(A[2][2], A[3][3]), FMul(A[2][3], A[3][2]))),
              FMul(A[1][2], FSub(FMul(A[2][1], A[3][3]), FMul(A[2][3], A[3][1])))),
         FMul(A[1][3], FSub(FMul(A[2][1], A[3][2]), FMul(A[2][2], A[3][1]))))

\* The 1-based index that follows i cyclically in 1..3.
Cyc(i) == (i % 3) + 1

\* np.linalg.inv: raises LinAlgError("Singular matrix") on a singular
\* matrix, else the inverse (the adjugate over the determinant).
inv(A) ==
    LET cof(i, j) == FSub(FMul(A[Cyc(i)][Cyc(j)], A[Cyc(Cyc(i))][Cyc(Cyc(j))]),
                          FMul(A[Cyc(i)][Cyc(Cyc(j))], A[Cyc(Cyc(i))][Cyc(j)]))
    IN  Assign(det(A), LAMBDA d :
            IF d = F(0) THEN [raised |-> "LinAlgError"]
            ELSE [raised |-> "none", value |-> Mat3(LAMBDA i, j : FDiv(cof(j, i), d))])

\* np.linalg.cholesky: the lower-triangular L with positive diagonal and
\* L L^T = A; raises LinAlgError when A is not positive definite.
cholesky(A) ==
    LET l11sq == A[1][1]
        l11 == ExactSqrt(l11sq)
        l21 == FDiv(A[2][1], l11)
        l31 == FDiv(A[3][1], l11)
        l22sq == FSub(A[2][2], FMul(l21, l21))
        l22 == ExactSqrt(l22sq)
        l32 == FDiv(FSub(A[3][2], FMul(l31, l21)), l22)
        l33sq == FSub(FSub(A[3][3], FMul(l31, l31)), FMul(l32, l32))
        l33 == ExactSqrt(l33sq)
    IN  IF ~FLt(F(0), l11sq) \/ ~FLt(F(0), l22sq) \/ ~FLt(F(0), l33sq)
        THEN [raised |-> "LinAlgError"]
        ELSE [raised |-> "none",
              value |-> << <<l11, F(0), F(0)>>, <<l21, l22, F(0)>>, <<l31, l32, l33>> >>]

\* np.dot(L, x) for a matrix and a vector.
dot(L, x) ==
    LET y(i) == FAdd(FAdd(FMul(L[i][1], x[1]), FMul(L[i][2], x[2])),
                     FMul(L[i][3], x[3]))
    IN  Vec3(y)

\* np.dot(L, centered.T).T with centered = data - mean: L @ (x - mean) for
\* every row x of data.
whiten(L, m, data) ==
    [i \in 1..Len(data) |->
        dot(L, <<FSub(data[i][1], m[1]), FSub(data[i][2], m[2]), FSub(data[i][3], m[3])>>)]

\* x / s for a float x and a (symbolic) square root s.
DivBySqrt(x, s) == [num |-> x, over_sqrt_of |-> s.sqrt_of]

\* Series.max() of a Series of square roots; NaN when the Series is empty.
RECURSIVE SeriesMax(_)
SeriesMax(s) ==
    IF s = <<>> THEN sqrt(NaN)
    ELSE IF Len(s) = 1 THEN s[1]
    ELSE LET rest == SeriesMax(Tail(s))
         IN  IF FLt(s[1].sqrt_of, rest.sqrt_of) THEN rest ELSE s[1]

\* np.sqrt(a**2 + b**2 + c**2)
norm3(a, b, c) == sqrt(FAdd(FAdd(FMul(a, a), FMul(b, b)), FMul(c, c)))

\* df['vx'] = df['tx'].diff() / df['timestamp'].diff(), likewise vy, vz,
\* and df['vel_magnitude'].
with_velocity(df) ==
    LET dt == diff(Column(df, "timestamp"))
        vx == SeriesDiv(diff(Column(df, "tx")), dt)
        vy == SeriesDiv(diff(Column(df, "ty")), dt)
        vz == SeriesDiv(diff(Column(df, "tz")), dt)
    IN  [i \in 1..Len(df) |->
            [timestamp |-> df[i].timestamp,
             tx |-> df[i].tx, ty |-> df[i].ty, tz |-> df[i].tz,
             vx |-> vx[i], vy |-> vy[i], vz |-> vz[i],
             vel_magnitude |-> norm3(vx[i], vy[i], vz[i])]]

\* df.dropna(subset=['vx', 'vy', 'vz', 'vel_magnitude'])
dropna_velocity(df) ==
    SelectSeq(df, LAMBDA r : /\ \A c \in VelCols : ~isnan(r[c])
                             /\ ~isnan(r.vel_magnitude.sqrt_of))

\* The frame of one file that the first pass pools.
first_pass(df) == dropna_velocity(with_velocity(df))

\* compute_stats: the statistics of the pooled positions and velocities.
compute_stats(p_df, v_df, max_pos, max_vel) ==
    LET P == values(p_df, <<"tx", "ty", "tz">>)
        V == values(v_df, <<"vx", "vy", "vz">>)
    IN  Assign(cov(P), LAMBDA pcov :
        Assign(inv(pcov), LAMBDA pinv :
        IF pinv.raised /= "none" THEN [raised |-> pinv.raised] ELSE
        Assign(cholesky(pinv.value), LAMBDA pL :
        IF pL.raised /= "none" THEN [raised |-> pL.raised] ELSE
        Assign(cov(V), LAMBDA vcov :
        Assign(inv(vcov), LAMBDA vinv :
        IF vinv.raised /= "none" THEN [raised |-> vinv.raised] ELSE
        Assign(cholesky(vinv.value), LAMBDA vL :
        IF vL.raised /= "none" THEN [raised |-> vL.raised] ELSE
        [raised |-> "none",
         pos_stats |-> [input_mean |-> mean(P), input_std |-> std(P),
                        cov_matrix |-> pcov, L_matrix |-> pL.value,
                        max_length |-> max_pos],
         vel_stats |-> [input_mean |-> mean(V), input_std |-> std(V),
                        cov_matrix |-> vcov, L_matrix |-> vL.value,
                        max_velocity |-> max_vel]]))))))

\* process_file: the four transformed frames of one file.
process_file(df0, pos_mean, pos_L, vel_mean, vel_L, max_pos, max_vel) ==
    LET df == with_velocity(df0)
        df_vel == Tail(df)
        pos_data == values(df, <<"tx", "ty", "tz">>)
        transformed_pos == whiten(pos_L, pos_mean, pos_data)
        vel_data == values(df_vel, <<"vx", "vy", "vz">>)
        transformed_vel == whiten(vel_L, vel_mean, vel_data)
    IN  [white_pos |-> [i \in 1..Len(pos_data) |->
                           [timestamp |-> df[i].timestamp,
                            tx |-> transformed_pos[i][1],
                            ty |-> transformed_pos[i][2],
                            tz |-> transformed_pos[i][3]]],
         white_vel |-> [i \in 1..Len(vel_data) |->
                           [timestamp |-> df_vel[i].timestamp,
                            vx |-> transformed_vel[i][1],
                            vy |-> transformed_vel[i][2],
                            vz |-> transformed_vel[i][3]]],
         max_pos |-> [i \in 1..Len(pos_data) |->
                         [timestamp |-> df[i].timestamp,
                          tx |-> DivBySqrt(pos_data[i][1], max_pos),
                          ty |-> DivBySqrt(pos_data[i][2], max_pos),
                          tz |-> DivBySqrt(pos_data[i][3], max_pos)]],
         max_vel |-> [i \in 1..Len(vel_data) |->
                         [timestamp |-> df[i].timestamp,
                          vx |-> DivBySqrt(vel_data[i][1], max_vel),
                          vy |-> DivBySqrt(vel_data[i][2], max_vel),
                          vz |-> DivBySqrt(vel_data[i][3], max_vel)]]]

(***************************************************************************)
(* Inputs of compute_stats.py.  The position of sample k of a directory is *)
(* offset + shape * BaseZ[k]; BaseZ is chosen so that the statistics of    *)
(* the pooled sample are rational.                                         *)
(***************************************************************************)
BaseZ ==
    << << 0,  1,  1>>, <<-1, -1, -1>>, <<-1, -1,  1>>, <<-1,  0, -1>>,
       << 1,  0, -1>>, << 0,  0,  0>>, << 1,  0, -1>>, << 1, -1,  1>>,
       << 1,  0,  1>>, <<-1,  1,  1>> >>

\* "axes": the three axes are uncorrelated; "shear": tx is correlated with ty.
Shapes == {"axes", "shear"}

Offsets == {<<0, 0, 0>>, <<2, 3, 3>>}

TimeSteps == {1, 2}

StatRow(shape, off, dt, k) ==
    LET z == BaseZ[k]
    IN  [timestamp |-> F(dt * (k - 1)),
         tx |-> F(off[1] + z[1] + (IF shape = "shear" THEN z[2] ELSE 0)),
         ty |-> F(off[2] + z[2]),
         tz |-> F(off[3] + z[3])]

StatFile(name, shape, off, dt, lo, hi) ==
    [name |-> name, rows |-> [k \in 1..(hi - lo + 1) |-> StatRow(shape, off, dt, lo + k - 1)]]

\* A noiseless trajectory of constant velocity (1, 0, 0): its covariance is
\* singular.
LinearFile(off, dt) ==
    [name |-> "a.csv",
     rows |-> [k \in 1..4 |-> [timestamp |-> F(dt * (k - 1)),
                               tx |-> F(off[1] + dt * (k - 1)),
                               ty |-> F(off[2]), tz |-> F(off[3])]]]

\* The directories: empty, one linear file, one file of all samples, or
\* the samples split over two files (the second starts at the sample the
\* first ends with), globbed in either order.
StatDirs ==
    {<<>>}
    \cup {<<LinearFile(off, dt)>> : off \in Offsets, dt \in TimeSteps}
    \cup {<<StatFile("a.csv", sh, off, dt, 1, Len(BaseZ))>> :
            sh \in Shapes, off \in Offsets, dt \in TimeSteps}
    \cup {<<StatFile("a.csv", sh, off, dt, 1, 5), StatFile("b.csv", sh, off, dt, 5, Len(BaseZ))>> :
            sh \in Shapes, off \in Offsets, dt \in TimeSteps}
    \cup {<<StatFile("b.csv", sh, off, dt, 5, Len(BaseZ)), StatFile("a.csv", sh, off, dt, 1, 5)>> :
            sh \in Shapes, off \in Offsets, dt \in TimeSteps}

(***************************************************************************)
(* compute_stats.py: compute_stats_and_transform.                          *)
(***************************************************************************)
StatIdle ==
    /\ all_files = <<>> /\ st_i = 0 /\ st_pc = "idle"
    /\ position_data = <<>> /\ velocity_data = <<>> /\ vel_magnitude_data = <<>>
    /\ max_pos_length = sqrt(F(0)) /\ max_vel_magnitude = sqrt(F(0))
    /\ pos_stats = <<>> /\ vel_stats = <<>>
    /\ st_raised = "none" /\ st_dirs = {} /\ st_npz = <<>> /\ st_csv = <<>>

StatInit ==
    /\ all_files \in StatDirs
    /\ st_i = 1 /\ st_pc = "pass1"
    /\ position_data = <<>> /\ velocity_data = <<>> /\ vel_magnitude_data = <<>>
    /\ max_pos_length = sqrt(F(0)) /\ max_vel_magnitude = sqrt(F(0))
    /\ pos_stats = <<>> /\ vel_stats = <<>>
    /\ st_raised = "none" /\ st_dirs = {} /\ st_npz = <<>> /\ st_csv = <<>>

\* One iteration of the first "for filename in all_files".
StatsReadFile ==
    /\ st_pc = "pass1" /\ st_i <= Len(all_files)
    /\ \E df \in {first_pass(all_files[st_i].rows)} :
       LET lengths == [i \in 1..Len(df) |-> norm3(df[i].tx, df[i].ty, df[i].tz)]
       IN  /\ position_data' = Append(position_data,
                  [i \in 1..Len(df) |-> [tx |-> df[i].tx, ty |-> df[i].ty, tz |-> df[i].tz]])
           /\ velocity_data' = Append(velocity_data,
                  [i \in 1..Len(df) |-> [vx |-> df[i].vx, vy |-> df[i].vy, vz |-> df[i].vz]])
           /\ vel_magnitude_data' = Append(vel_magnitude_data, Column(df, "vel_magnitude"))
           /\ max_pos_length' = max(max_pos_length, SeriesMax(lengths))
           /\ max_vel_magnitude' = max(max_vel_magnitude, SeriesMax(Column(df, "vel_magnitude")))
    /\ st_i' = st_i + 1
    /\ UNCHANGED <<all_files, st_pc, pos_stats, vel_stats, st_raised, st_dirs, st_npz, st_csv>>
    /\ UNCHANGED statOthers

\* The step after the first loop with os.makedirs moved ahead of
\* compute_stats.
StatsComputeAfterMakedirs ==
    /\ st_pc = "pass1" /\ st_i > Len(all_files)
    /\ IF position_data = <<>> \/ velocity_data = <<>>
       THEN /\ st_pc' = "returned"
            /\ UNCHANGED <<pos_stats, vel_stats, st_raised, st_dirs>>
       ELSE /\ st_dirs' = {"transformed_trajectories", "pos_whitening", "pos_max",
                           "vel_whitening", "vel_max"}
            /\ \E r \in {compute_stats(Flatten(position_data), Flatten(velocity_data),
                                       max_pos_length, max_vel_magnitude)} :
                IF r.raised /= "none"
                THEN /\ st_pc' = "raised"
                     /\ st_raised' = r.raised
                     /\ UNCHANGED <<pos_stats, vel_stats>>
                ELSE /\ pos_stats' = r.pos_stats
                     /\ vel_stats' = r.vel_stats
                     /\ st_pc' = "save"
                     /\ UNCHANGED st_raised
    /\ UNCHANGED <<all_files, st_i, position_data, velocity_data, vel_magnitude_data,
                   max_pos_length, max_vel_magnitude, st_npz, st_csv>>
    /\ UNCHANGED statOthers

\* After the first loop: the early return on an empty list, pd.concat and
\* compute_stats.
StatsCompute ==
    /\ st_pc = "pass1" /\ st_i > Len(all_files)
    /\ IF position_data = <<>> \/ velocity_data = <<>>
       THEN /\ st_pc' = "returned"
            /\ UNCHANGED <<pos_stats, vel_stats, st_raised>>
       ELSE \E r \in {compute_stats(Flatten(position_data), Flatten(velocity_data),
                                     max_pos_length, max_vel_magnitude)} :
                IF r.raised /= "none"
                THEN /\ st_pc' = "raised"
                     /\ st_raised' = r.raised
                     /\ UNCHANGED <<pos_stats, vel_stats>>
                ELSE /\ pos_stats' = r.pos_stats
                     /\ vel_stats' = r.vel_stats
                     /\ st_pc' = "save"
                     /\ UNCHANGED st_raised
    /\ UNCHANGED <<all_files, st_i, position_data, velocity_data, vel_magnitude_data,
                   max_pos_length, max_vel_magnitude, st_dirs, st_npz, st_csv>>
    /\ UNCHANGED statOthers

\* The save step with the np.savez calls left out.
StatsSaveNoArchive ==
    /\ st_pc = "save"
    /\ st_dirs' = {"transformed_trajectories", "pos_whitening", "pos_max",
                   "vel_whitening", "vel_max"}
    /\ st_pc' = "pass2"
    /\ st_i' = 1
    /\ UNCHANGED <<all_files, position_data, velocity_data, vel_magnitude_data,
                   max_pos_length, max_vel_magnitude, pos_stats, vel_stats,
                   st_raised, st_csv, st_npz>>
    /\ UNCHANGED statOthers

\* os.makedirs of the five directories, np.savez of both archives.
StatsSave ==
    /\ st_pc = "save"
    /\ st_dirs' = {"transformed_trajectories", "pos_whitening", "pos_max",
                   "vel_whitening", "vel_max"}
    /\ st_npz' = <<[name |-> "pos_stats.npz", data |-> pos_stats],
                   [name |-> "vel_stats.npz", data |-> vel_stats]>>
    /\ st_pc' = "pass2"
    /\ st_i' = 1
    /\ UNCHANGED <<all_files, position_data, velocity_data, vel_magnitude_data,
                   max_pos_length, max_vel_magnitude, pos_stats, vel_stats,
                   st_raised, st_csv>>
    /\ UNCHANGED statOthers

\* One iteration of the second "for filename in all_files": process_file.
StatsProcessFile ==
    /\ st_pc = "pass2" /\ st_i <= Len(all_files)
    /\ \E f \in {all_files[st_i]} :
       \E r \in {process_file(f.rows, pos_stats.input_mean, pos_stats.L_matrix,
                              vel_stats.input_mean, vel_stats.L_matrix,
                              max_pos_length, max_vel_magnitude)} :
           st_csv' = st_csv \o
              <<[dir |-> "pos_whitening", prefix |-> "white_norm_pos_", of |-> f.name, rows |-> r.white_pos],
                [dir |-> "vel_whitening", prefix |-> "white_norm_vel_", of |-> f.name, rows |-> r.white_vel],
                [dir |-> "pos_max", prefix |-> "max_norm_pos_", of |-> f.name, rows |-> r.max_pos],
                [dir |-> "vel_max", prefix |-> "max_norm_vel_", of |-> f.name, rows |-> r.max_vel]>>
    /\ st_i' = st_i + 1
    /\ UNCHANGED <<all_files, st_pc, position_data, velocity_data, vel_magnitude_data,
                   max_pos_length, max_vel_magnitude, pos_stats, vel_stats,
                   st_raised, st_dirs, st_npz>>
    /\ UNCHANGED statOthers

\* plot_histograms and the closing prints.
StatsPlot ==
    /\ st_pc = "pass2" /\ st_i > Len(all_files)
    /\ st_pc' = "done"
    /\ UNCHANGED <<all_files, st_i, position_data, velocity_data, vel_magnitude_data,
                   max_pos_length, max_vel_magnitude, pos_stats, vel_stats,
                   st_raised, st_dirs, st_npz, st_csv>>
    /\ UNCHANGED statOthers

(***************************************************************************)
(* Resampling: resample_trajectory.py and compute_velocity.resample_data.  *)
(***************************************************************************)
\* The smallest integer that is not below the finite float q.
FCeil(q) == -((-q[1]) \div q[2])

\* np.arange(start, stop, step) that also yields stop when it is on the grid.
np_arange_closed(start, stop, step) ==
    LET len == FCeil(FDiv(FSub(stop, start), step))
        n == IF FAdd(start, FMul(F(len), step)) = stop THEN len + 1 ELSE len
    IN  [k \in 1..(IF n > 0 THEN n ELSE 0) |-> FAdd(start, FMul(F(k - 1), step))]

\* np.arange(start, stop, step) for floats: ceil((stop - start) / step)
\* values start + k * step, none when that length is not positive.
np_arange(start, stop, step) ==
    LET len == FCeil(FDiv(FSub(stop, start), step))
    IN  [k \in 1..(IF len > 0 THEN len ELSE 0) |-> FAdd(start, FMul(F(k - 1), step))]

\* Inserts row r into the frame sorted by timestamp, after the rows with
\* the same timestamp.
RECURSIVE insert_sorted(_, _)
insert_sorted(sorted, r) ==
    IF sorted = <<>> THEN <<r>>
    ELSE IF FLt(r.timestamp, Head(sorted).timestamp) THEN <<r>> \o sorted
    ELSE <<Head(sorted)>> \o insert_sorted(Tail(sorted), r)

\* df.sort_values('timestamp'): rows in ascending timestamp order, rows of
\* equal timestamp in their original order.
RECURSIVE sort_values(_)
sort_values(df) ==
    IF df = <<>> THEN <<>>
    ELSE insert_sorted(sort_values(SubSeq(df, 1, Len(df) - 1)), df[Len(df)])

\* df.drop_duplicates(subset='timestamp'): the first row of every timestamp.
drop_duplicates(df) ==
    LET first(i) == \A j \in 1..(i - 1) : df[j].timestamp /= df[i].timestamp
        keep == {i \in 1..Len(df) : first(i)}
        nth(k) == CHOOSE i \in keep : Cardinality({j \in keep : j <= i}) = k
    IN  [k \in 1..Cardinality(keep) |-> df[nth(k)]]

\* Series.min() and Series.max() of a Series of floats without NaN.
RECURSIVE series_min(_)
series_min(s) ==
    IF Len(s) = 1 THEN s[1]
    ELSE LET m == series_min(Tail(s)) IN IF FLt(m, s[1]) THEN m ELSE s[1]

RECURSIVE series_max(_)
series_max(s) ==
    IF Len(s) = 1 THEN s[1]
    ELSE LET m == series_max(Tail(s)) IN IF FLt(s[1], m) THEN m ELSE s[1]

\* The straight line through (x0, y0) and (x1, y1) evaluated at x.
lerp(x, x0, y0, x1, y1) ==
    FAdd(FMul(FDiv(FSub(y1, y0), FSub(x1, x0)), FSub(x, x0)), y0)

\* np.interp(x, xp, fp) at one point x: fp[0] left of xp, fp[-1] right of
\* it, else with j the last index such that xp[j] <= x, fp[j] when
\* x = xp[j] and the line through samples j and j + 1 otherwise.
np_interp(x, xp, fp) ==
    IF FLt(x, xp[1]) THEN fp[1]
    ELSE IF ~FLt(x, xp[Len(xp)]) THEN fp[Len(xp)]
    ELSE LET j == CHOOSE i \in 1..(Len(xp) - 1) :
                      ~FLt(x, xp[i]) /\ FLt(x, xp[i + 1])
         IN  IF x = xp[j] THEN fp[j]
             ELSE lerp(x, xp[j], fp[j], xp[j + 1], fp[j + 1])

\* interp1d(xp, fp, kind='linear', fill_value="extrapolate")(x) at one
\* point x: with hi = searchsorted(xp, x) clipped to the second .. last
\* sample, the line through samples hi - 1 and hi, also outside of xp.
\* With a single sample both ends of the line are that sample: 0/0.
interp1d(x, xp, fp) ==
    LET pos == Cardinality({i \in 1..Len(xp) : FLt(xp[i], x)})
        hi == IF pos < 1 THEN 2 ELSE IF pos > Len(xp) - 1 THEN Len(xp) ELSE pos + 1
    IN  IF Len(xp) = 1 THEN NaN
        ELSE lerp(x, xp[hi - 1], fp[hi - 1], xp[hi], fp[hi])

\* resample_trajectory with the grid running one step past the maximum.
resample_trajectory_padded(df0, sampling_time) ==
    LET df == sort_values(df0)
        ts == Column(df, "timestamp")
        new_timestamps == np_arange(series_min(ts), FAdd(series_max(ts), sampling_time),
                                    sampling_time)
    IN  [xp |-> ts,
         out |-> [k \in 1..Len(new_timestamps) |->
                    [timestamp |-> new_timestamps[k],
                     tx |-> np_interp(new_timestamps[k], ts, Column(df, "tx")),
                     ty |-> np_interp(new_timestamps[k], ts, Column(df, "ty")),
                     tz |-> np_interp(new_timestamps[k], ts, Column(df, "tz"))]]]

\* resample_trajectory.py: resample_trajectory.  xp is what np.interp gets.
resample_trajectory(df0, sampling_time) ==
    LET df == sort_values(df0)
        ts == Column(df, "timestamp")
        new_timestamps == np_arange(series_min(ts), series_max(ts), sampling_time)
    IN  [xp |-> ts,
         out |-> [k \in 1..Len(new_timestamps) |->
                    [timestamp |-> new_timestamps[k],
                     tx |-> np_interp(new_timestamps[k], ts, Column(df, "tx")),
                     ty |-> np_interp(new_timestamps[k], ts, Column(df, "ty")),
                     tz |-> np_interp(new_timestamps[k], ts, Column(df, "tz"))]]]

\* resample_data with the grid starting one step before the first sample.
resample_data_early(df0, sample_time) ==
    LET sorted == sort_values(df0)
        start_time == FSub(sorted[1].timestamp, sample_time)
        end_time == sorted[Len(sorted)].timestamp
        new_timestamps == np_arange(start_time, end_time, sample_time)
        df == drop_duplicates(sorted)
        ts == Column(df, "timestamp")
    IN  [xp |-> ts,
         out |-> [k \in 1..Len(new_timestamps) |->
                    [timestamp |-> new_timestamps[k],
                     tx |-> interp1d(new_timestamps[k], ts, Column(df, "tx")),
                     ty |-> interp1d(new_timestamps[k], ts, Column(df, "ty")),
                     tz |-> interp1d(new_timestamps[k], ts, Column(df, "tz"))]]]

\* compute_velocity.py: resample_data.  xp is what interp1d gets.
resample_data(df0, sample_time) ==
    LET sorted == sort_values(df0)
        start_time == sorted[1].timestamp
        end_time == sorted[Len(sorted)].timestamp
        new_timestamps == np_arange(start_time, end_time, sample_time)
        df == drop_duplicates(sorted)
        ts == Column(df, "timestamp")
    IN  [xp |-> ts,
         out |-> [k \in 1..Len(new_timestamps) |->
                    [timestamp |-> new_timestamps[k],
                     tx |-> interp1d(new_timestamps[k], ts, Column(df, "tx")),
                     ty |-> interp1d(new_timestamps[k], ts, Column(df, "ty")),
                     tz |-> interp1d(new_timestamps[k], ts, Column(df, "tz"))]]]

\* Inputs: frames of 1..MaxN rows in any order, repeated timestamps allowed.
ResTimes == {0, 1, 2, 3}

ResPositions == {0, 3}

ResRows ==
    {[timestamp |-> F(t), tx |-> F(x), ty |-> F(x + 1), tz |-> F(2 * x)] :
        t \in ResTimes, x \in ResPositions}

\* The sampling times: a half, one and two time units.
ResSteps == {Float(1, 2), F(1), F(2)}

ResIdle ==
    /\ res_df = <<>> /\ res_dt = F(0) /\ res_routine = "idle"
    /\ res_xp = <<>> /\ res_out = <<>>

ResInit ==
    /\ res_df \in UNION {[1..n -> ResRows] : n \in 1..MaxN}
    /\ res_dt \in ResSteps
    /\ res_routine = "none"
    /\ res_xp = <<>> /\ res_out = <<>>

\* resample_trajectory.py: df_resampled = resample_trajectory(df, sampling_time)
ResampleTrajectory ==
    /\ res_routine = "none"
    /\ \E r \in {resample_trajectory(res_df, res_dt)} :
          res_xp' = r.xp /\ res_out' = r.out
    /\ res_routine' = "resample_trajectory"
    /\ UNCHANGED <<res_df, res_dt, resOthers>>

\* compute_velocity.py: df = resample_data(df, sample_time)
ResampleData ==
    /\ res_routine = "none"
    /\ \E r \in {resample_data(res_df, res_dt)} :
          res_xp' = r.xp /\ res_out' = r.out
    /\ res_routine' = "resample_data"
    /\ UNCHANGED <<res_df, res_dt, resOthers>>

(***************************************************************************)
(* compute_velocity.py: process_files.  A cell of a file read by           *)
(* pd.read_csv is a number (ok, with its value) or some other text.        *)
(***************************************************************************)
Cell(v) == [ok |-> TRUE, val |-> F(v)]

Malformed == [ok |-> FALSE, val |-> F(0)]

\* pd.to_numeric(cell, errors='coerce')
to_numeric(cell) == IF cell.ok THEN cell.val ELSE NaN

EssentialCols == {"timestamp", "tx", "ty", "tz"}

\* A dropna that looks at the timestamp column only.
DropnaTimestampOnly == {"timestamp"}

\* subset=['timestamp', 'tx', 'ty', 'tz'] of the dropna at line 117.
DropnaSubset == {"timestamp", "tx", "ty", "tz"}

\* Lines 111-117: the four columns coerced to numbers, then
\* df.dropna(subset=['timestamp', 'tx', 'ty', 'tz']).
coerce_and_drop(raw) ==
    dropna([i \in 1..Len(raw) |->
               [timestamp |-> to_numeric(raw[i].timestamp), tx |-> to_numeric(raw[i].tx),
                ty |-> to_numeric(raw[i].ty), tz |-> to_numeric(raw[i].tz)]],
           DropnaSubset)

\* df[['timestamp', 'vx', 'vy', 'vz']]
velocity_columns(df) ==
    [i \in 1..Len(df) |->
        [timestamp |-> df[i].timestamp, vx |-> df[i].vx, vy |-> df[i].vy, vz |-> df[i].vz]]

\* The body of the for loop for one file: the frame written by to_csv, or
\* the exception raised (resample_data reads iloc[0] of an empty frame).
process_one_file(raw, resample, sample_time, velocity_only) ==
    LET df == coerce_and_drop(raw)
        resampled == IF resample THEN resample_data(df, sample_time).out ELSE df
        with_vel == compute_velocity(resampled)
    IN  IF resample /\ df = <<>> THEN [raised |-> "IndexError"]
        ELSE [raised |-> "none",
              rows |-> IF velocity_only THEN velocity_columns(with_vel) ELSE with_vel]

endswith_csv(name) == name \in {"a.csv"}

\* Inputs: files of MaxN + 1 rows on the timestamps 0, 1, 2, ..., at most
\* one of them with a malformed cell.
CvRowCount == MaxN + 1

CvRawRow(k, bad) ==
    [c \in EssentialCols |->
        IF bad = <<k, c>> THEN Malformed
        ELSE Cell(CASE c = "timestamp" -> k - 1
                    [] c = "tx" -> k * k
                    [] c = "ty" -> 10 - k
                    [] c = "tz" -> 2 * k)]

CvBadCells == {<<0, "none">>} \cup ((1..CvRowCount) \X EssentialCols)

CvContents == {[k \in 1..CvRowCount |-> CvRawRow(k, bad)] : bad \in CvBadCells}

\* A file of one row whose tx is malformed: nothing survives.
CvAllBad == <<CvRawRow(1, <<1, "tx">>)>>

CvFiles ==
    {[name |-> "a.csv", cells |-> c] : c \in CvContents \cup {CvAllBad}}
    \cup {[name |-> "b.txt", cells |-> [k \in 1..CvRowCount |-> CvRawRow(k, bad)]] :
            bad \in {<<0, "none">>, <<2, "ty">>}}
    \cup {[name |-> "notes.md", cells |-> <<>>]}

\* Directories of at most two files with distinct names, in any order.
CvDirs ==
    {<<>>} \cup {<<f>> : f \in CvFiles}
    \cup {<<f, g>> : f \in {h \in CvFiles : h.name = "a.csv"},
                     g \in {h \in CvFiles : h.name /= "a.csv"}}
    \cup {<<g, f>> : f \in {h \in CvFiles : h.name = "a.csv"},
                     g \in {h \in CvFiles : h.name /= "a.csv"}}

CvIdle ==
    /\ cv_dir = <<>> /\ cv_resample = FALSE /\ cv_velocity_only = FALSE
    /\ cv_sample_time = F(0) /\ cv_file_list = <<>> /\ cv_i = 0 /\ cv_pc = "idle"
    /\ cv_raised = "none" /\ cv_dirs = {} /\ cv_written = <<>>

CvInit ==
    /\ cv_dir \in CvDirs
    /\ cv_resample \in BOOLEAN
    /\ cv_velocity_only \in BOOLEAN
    /\ cv_sample_time \in {Float(1, 2), F(1)}
    /\ cv_file_list = <<>> /\ cv_i = 0 /\ cv_pc = "start"
    /\ cv_raised = "none" /\ cv_dirs = {} /\ cv_written = <<>>

\* Lines 94-101: os.makedirs(output_dir), then the list of .csv files.
CvStart ==
    /\ cv_pc = "start"
    /\ cv_dirs' = {"velocity_processed_csv_files"}
    /\ cv_file_list' = SelectSeq(cv_dir, LAMBDA f : endswith_csv(f.name))
    /\ cv_i' = 1
    /\ cv_pc' = "loop"
    /\ UNCHANGED <<cv_dir, cv_resample, cv_velocity_only, cv_sample_time,
                   cv_raised, cv_written>>
    /\ UNCHANGED cvOthers

\* Lines 105-129: one iteration of "for filename in file_list".
CvProcessFile ==
    /\ cv_pc = "loop" /\ cv_i <= Len(cv_file_list)
    /\ \E r \in {process_one_file(cv_file_list[cv_i].cells, cv_resample,
                                  cv_sample_time, cv_velocity_only)} :
          IF r.raised /= "none"
          THEN /\ cv_pc' = "raised"
               /\ cv_raised' = r.raised
               /\ UNCHANGED <<cv_i, cv_written>>
          ELSE /\ cv_written' = Append(cv_written,
                      [name |-> cv_file_list[cv_i].name, rows |-> r.rows])
               /\ cv_i' = cv_i + 1
               /\ UNCHANGED <<cv_pc, cv_raised>>
    /\ UNCHANGED <<cv_dir, cv_resample, cv_velocity_only, cv_sample_time,
                   cv_file_list, cv_dirs>>
    /\ UNCHANGED cvOthers

\* Line 131: the closing print.
CvFinish ==
    /\ cv_pc = "loop" /\ cv_i > Len(cv_file_list)
    /\ cv_pc' = "done"
    /\ UNCHANGED <<cv_dir, cv_resample, cv_velocity_only, cv_sample_time,
                   cv_file_list, cv_i, cv_raised, cv_dirs, cv_written>>
    /\ UNCHANGED cvOthers

(***************************************************************************)
(* generate_random_trajectories.py: the normal vector of a circle or       *)
(* lemniscate and the rotation matrix that tilts the trajectory.           *)
(***************************************************************************)
\* The squared Euclidean norm of a 3-vector.
norm_sq(v) == FAdd(FAdd(FMul(v[1], v[1]), FMul(v[2], v[2])), FMul(v[3], v[3]))

\* np.linalg.norm(v) of a 3-vector whose norm is rational.
linalg_norm(v) == ExactSqrt(norm_sq(v))

\* v / n for a vector and a float.
vec_div(v, n) == <<FDiv(v[1], n), FDiv(v[2], n), FDiv(v[3], n)>>

\* np.cross(a, b)
cross(a, b) ==
    <<FSub(FMul(a[2], b[3]), FMul(a[3], b[2])),
      FSub(FMul(a[3], b[1]), FMul(a[1], b[3])),
      FSub(FMul(a[1], b[2]), FMul(a[2], b[1]))>>

\* np.dot(a, b) of two vectors.
vdot(a, b) == FAdd(FAdd(FMul(a[1], b[1]), FMul(a[2], b[2])), FMul(a[3], b[3]))

\* A.dot(B) of two 3 x 3 matrices.
matmul(A, B) ==
    Mat3(LAMBDA i, j : FAdd(FAdd(FMul(A[i][1], B[1][j]), FMul(A[i][2], B[2][j])),
                            FMul(A[i][3], B[3][j])))

\* np.eye(3)
eye3 == << <<F(1), F(0), F(0)>>, <<F(0), F(1), F(0)>>, <<F(0), F(0), F(1)>> >>

\* generate_normal_vector: the drawn vector, or [0, 0, 1] when its norm is
\* below 1e-3.  The drawn vectors have integer components.
generate_normal_vector(vector) ==
    IF norm_sq(vector) = F(0) THEN <<F(0), F(0), F(1)>> ELSE vector

\* rotation_matrix_from_vectors: s ** 2 is the squared norm of v.
rotation_matrix_from_vectors(vec1, vec2) ==
    LET a == vec_div(vec1, linalg_norm(vec1))
        b == vec_div(vec2, linalg_norm(vec2))
        v == cross(a, b)
        c == vdot(a, b)
        s_squared == norm_sq(v)
        kmat == << <<F(0), FNeg(v[3]), v[2]>>,
                   <<v[3], F(0), FNeg(v[1])>>,
                   <<FNeg(v[2]), v[1], F(0)>> >>
        factor == FDiv(FSub(F(1), c), s_squared)
    IN  Assign(matmul(kmat, kmat), LAMBDA kk :
            Mat3(LAMBDA i, j : FAdd(FAdd(eye3[i][j], kmat[i][j]),
                                    FMul(kk[i][j], factor))))

\* The largest component of a drawn vector.
MaxComp == 4

\* The vectors np.random.normal can draw: integer components and a
\* rational norm, the zero vector included.
DrawnVectors ==
    {<<F(x), F(y), F(z)>> : <<x, y, z>> \in
        {w \in (-MaxComp..MaxComp) \X (-MaxComp..MaxComp) \X (-MaxComp..MaxComp) :
            \E n \in 0..(2 * MaxComp) : w[1] * w[1] + w[2] * w[2] + w[3] * w[3] = n * n}}

RotIdle == rot_pc = "idle" /\ rot_normal = <<>> /\ rot_matrix = <<>>

RotInit == rot_pc = "draw" /\ rot_normal = <<>> /\ rot_matrix = <<>>

\* Lines 218 and 232: tuple(generate_normal_vector()).
GenerateNormalVector ==
    /\ rot_pc = "draw"
    /\ \E vector \in DrawnVectors : rot_normal' = generate_normal_vector(vector)
    /\ rot_pc' = "normalize"
    /\ UNCHANGED <<rot_matrix, rotOthers>>

\* Lines 223 and 238: normal = normal / np.linalg.norm(normal).
NormalizeNormal ==
    /\ rot_pc = "normalize"
    /\ rot_normal' = vec_div(rot_normal, linalg_norm(rot_normal))
    /\ rot_pc' = "rotate"
    /\ UNCHANGED <<rot_matrix, rotOthers>>

\* Lines 83 and 103: rotation_matrix_from_vectors([0, 0, 1], normal).
RotationMatrix ==
    /\ rot_pc = "rotate"
    /\ rot_matrix' = rotation_matrix_from_vectors(<<F(0), F(0), F(1)>>, rot_normal)
    /\ rot_pc' = "done"
    /\ UNCHANGED <<rot_normal, rotOthers>>

(***************************************************************************)
(* generate_random_trajectories.py: the linear trajectories and            *)
(* save_to_txt, run with --noise 0 (add_noise then adds nothing).          *)
(***************************************************************************)
\* duration = 20.0
duration == 20

\* int(x) of a finite float: truncation towards zero.
int(x) == Sign(x[1]) * (Abs(x[1]) \div x[2])

\* np.linspace(0, stop, num): num evenly spaced values, the ends included.
linspace0(stop, num) ==
    [k \in 1..num |->
        IF num = 1 THEN F(0) ELSE FMul(F(k - 1), FDiv(stop, F(num - 1)))]

\* linear_trajectory: one row [t, x, y, z] per timestamp.
linear_trajectory(initial_point, velocity, dur, dt) ==
    LET num_points == int(FDiv(F(dur), dt)) + 1
        timestamps == linspace0(F(dur), num_points)
    IN  [k \in 1..Len(timestamps) |->
            <<timestamps[k],
              FAdd(F(initial_point[1]), FMul(F(velocity[1]), timestamps[k])),
              FAdd(F(initial_point[2]), FMul(F(velocity[2]), timestamps[k])),
              FAdd(F(initial_point[3]), FMul(F(velocity[3]), timestamps[k]))>>]

\* 10 ** digits
RECURSIVE Pow10(_)
Pow10(digits) == IF digits = 0 THEN 1 ELSE 10 * Pow10(digits - 1)

\* f"{x:.<digits>f}": x rounded to the nearest multiple of 10 ** -digits,
\* a tie to the even one.
format_f(x, digits) ==
    LET scaled == FMul(x, F(Pow10(digits)))
        lo == scaled[1] \div scaled[2]
        twice == 2 * (scaled[1] - lo * scaled[2])
        n == IF twice > scaled[2] \/ (twice = scaled[2] /\ lo % 2 = 1) THEN lo + 1 ELSE lo
    IN  Float(n, Pow10(digits))

\* save_to_txt: the files it writes (none or one); the check against
\* npoints is commented out and the empty case only prints.
save_to_txt(trajectory, npoints) ==
    <<[header |-> "timestamp,tx,ty,tz",
       rows |-> [k \in 1..Len(trajectory) |->
                   <<format_f(trajectory[k][1], 2), format_f(trajectory[k][2], 5),
                     format_f(trajectory[k][3], 5), format_f(trajectory[k][4], 5)>>]]>>

\* --npoints when not given.
DefaultNpoints == 100

\* The largest --ntraj.
MaxTraj == 2

\* Time steps: 21, 11, 7, 6, 5, 3 and 1 points, and -20 for no point.
GenSteps == {F(1), F(2), F(3), F(4), F(5), F(10), F(40), F(-20)}

GenNpoints == {1, 5, 10, DefaultNpoints}

\* np.random.uniform draws of the initial point and the velocity.
LineParameters ==
    {<<p, v>> : p \in {<<0, 0, 0>>, <<1, -2, 3>>}, v \in {<<1, 0, -1>>, <<0, 2, 0>>}}

GenIdle ==
    /\ gen_dt = F(0) /\ gen_npoints = 0 /\ gen_ntraj = 0 /\ gen_pc = "idle"
    /\ gen_i = 0 /\ gen_dirs = {} /\ gen_files = <<>>

GenInit ==
    /\ gen_dt \in GenSteps
    /\ gen_npoints \in GenNpoints
    /\ gen_ntraj \in 1..MaxTraj
    /\ gen_pc = "start" /\ gen_i = 0 /\ gen_dirs = {} /\ gen_files = <<>>

\* Lines 191-194: os.makedirs(output_path).
GenMakeDirs ==
    /\ gen_pc = "start"
    /\ gen_dirs' = {"output_path"}
    /\ gen_pc' = "lines"
    /\ gen_i' = 1
    /\ UNCHANGED <<gen_dt, gen_npoints, gen_ntraj, gen_files, genOthers>>

\* Lines 203-211: one linear trajectory is drawn, generated and saved.
GenLine ==
    /\ gen_pc = "lines" /\ gen_i <= gen_ntraj
    /\ \E params \in LineParameters :
          \E traj_data \in {linear_trajectory(params[1], params[2], duration, gen_dt)} :
             gen_files' = gen_files \o
                 [k \in 1..Len(save_to_txt(traj_data, gen_npoints)) |->
                     [name |-> <<"line", gen_i>>,
                      points |-> Len(traj_data),
                      text |-> save_to_txt(traj_data, gen_npoints)[k]]]
    /\ gen_i' = gen_i + 1
    /\ UNCHANGED <<gen_dt, gen_npoints, gen_ntraj, gen_pc, gen_dirs, genOthers>>

\* The loop over line_parameters has ended.
GenLinesDone ==
    /\ gen_pc = "lines" /\ gen_i > gen_ntraj
    /\ gen_pc' = "done"
    /\ UNCHANGED <<gen_dt, gen_npoints, gen_ntraj, gen_i, gen_dirs, gen_files, genOthers>>

(***************************************************************************)
(* trajectory_to_segmetns.py: non-overlapping segments.                    *)
(***************************************************************************)
\* range(0, stop, step) as the sequence of its values.
range_step(stop, step) ==
    [k \in 1..(IF stop <= 0 THEN 0 ELSE ((stop - 1) \div step) + 1) |-> (k - 1) * step]

\* The segments cut with stride 1 instead of seg_len.
divide_into_segments_stride1(df, seg_len, cv) ==
    LET starts == range_step(Len(df) - seg_len + 1, 1)
        segments == [j \in 1..Len(starts) |->
                        window(df, starts[j], starts[j] + seg_len, <<"tx", "ty", "tz">>)]
    IN  IF cv THEN [raised |-> "TypeError"]
        ELSE IF segments = <<>> THEN [raised |-> "ValueError"]
        ELSE [raised |-> "none", segments |-> transpose_1_2_0(segments)]

\* divide_into_segments.  The parameter compute_velocity hides the function
\* of that name, so "compute_velocity(df)" calls a bool: TypeError.
\* np.array([]).transpose(1, 2, 0) raises ValueError when no segment fits.
divide_into_segments(df, seg_len, cv) ==
    LET starts == range_step(Len(df) - seg_len + 1, seg_len)
        segments == [j \in 1..Len(starts) |->
                        window(df, starts[j], starts[j] + seg_len, <<"tx", "ty", "tz">>)]
    IN  IF cv THEN [raised |-> "TypeError"]
        ELSE IF segments = <<>> THEN [raised |-> "ValueError"]
        ELSE [raised |-> "none", segments |-> transpose_1_2_0(segments)]

\* segments.reshape(-1, segments.shape[2]): row (c, t) of the C-ordered
\* tensor [channel, time, segment] becomes row c * seg_len + t.
reshape_2D(segments) ==
    LET len == Len(segments[1])
    IN  [r \in 1..(Len(segments) * len) |->
            segments[((r - 1) \div len) + 1][((r - 1) % len) + 1]]

\* Inputs: a.csv of 1 .. 2 * MaxN + 1 rows, b.txt of MaxN or MaxN + 2 rows.
DivEntries ==
    {[name |-> "a.csv", rows |-> FileRows(Base("a.csv"), T, "inc")] : T \in 1..(2 * MaxN + 1)}
    \cup {[name |-> "b.txt", rows |-> FileRows(Base("b.txt"), T, "inc")] : T \in {MaxN, MaxN + 2}}
    \cup {[name |-> "notes.md", rows |-> <<>>]}

DivListings ==
    {<<>>} \cup {<<f>> : f \in DivEntries}
    \cup {<<f, g>> : f \in {h \in DivEntries : h.name = "a.csv"},
                     g \in {h \in DivEntries : h.name /= "a.csv"}}
    \cup {<<g, f>> : f \in {h \in DivEntries : h.name = "a.csv"},
                     g \in {h \in DivEntries : h.name /= "a.csv"}}

DivIdle ==
    /\ div_listing = <<>> /\ div_seg_len = 0 /\ div_cv = FALSE /\ div_i = 0
    /\ div_pc = "idle" /\ div_raised = "none" /\ segment_dict = <<>> /\ div_npz = <<>>

DivInit ==
    /\ div_listing \in DivListings
    /\ div_seg_len \in 1..MaxN
    /\ div_cv \in BOOLEAN
    /\ div_i = 1 /\ div_pc = "loop" /\ div_raised = "none"
    /\ segment_dict = <<>> /\ div_npz = <<>>

\* Lines 43-56: one iteration of "for filename in os.listdir(dir_path)".
DivLoopStep ==
    /\ div_pc = "loop" /\ div_i <= Len(div_listing)
    /\ IF ~endswith_csv_or_txt(div_listing[div_i].name)
       THEN /\ div_i' = div_i + 1
            /\ UNCHANGED <<div_pc, div_raised, segment_dict>>
       ELSE \E r \in {divide_into_segments(read_trajectory(div_listing[div_i]),
                                           div_seg_len, div_cv)} :
               IF r.raised /= "none"
               THEN /\ div_pc' = "raised"
                    /\ div_raised' = r.raised
                    /\ UNCHANGED <<div_i, segment_dict>>
               ELSE /\ segment_dict' = Append(segment_dict,
                           <<div_listing[div_i].name, reshape_2D(r.segments)>>)
                    /\ div_i' = div_i + 1
                    /\ UNCHANGED <<div_pc, div_raised>>
    /\ UNCHANGED <<div_listing, div_seg_len, div_cv, div_npz, divOthers>>

\* Lines 58-59: np.savez(save_path, **segment_dict, seg_len=seg_len).
DivSave ==
    /\ div_pc = "loop" /\ div_i > Len(div_listing)
    /\ div_npz' = [files |-> segment_dict, seg_len |-> div_seg_len]
    /\ div_pc' = "saved"
    /\ UNCHANGED <<div_listing, div_seg_len, div_cv, div_i, div_raised, segment_dict,
                   divOthers>>

(***************************************************************************)
(* data_distribution.py: process_files.                                    *)
(***************************************************************************)
AllColumns == {"timestamp", "tx", "ty", "tz"}

\* pd.read_csv(file_path, sep=','): a file without a header line raises
\* EmptyDataError, any other file gives its columns and rows.
dist_read_csv(content) ==
    IF content.columns = {}
    THEN [raised |-> "EmptyDataError", df |-> <<>>]
    ELSE [raised |-> "none", df |-> content]

\* data[c].diff(): KeyError for a missing column, TypeError for a column of
\* strings (the subtraction of two str objects).
series_diff_error(data, c) ==
    IF c \notin data.columns THEN "KeyError"
    ELSE IF \E k \in 1..Len(data.rows) : ~data.rows[k][c].ok THEN "TypeError"
    ELSE "none"

\* The first exception of the accesses of compute_velocity, lines 8-10, in
\* evaluation order.
compute_velocity_error(data) ==
    LET order == <<"tx", "timestamp", "ty", "timestamp", "tz", "timestamp">>
        errs  == SelectSeq([k \in 1..6 |-> series_diff_error(data, order[k])],
                           LAMBDA e : e /= "none")
    IN  IF errs = <<>> THEN "none" ELSE errs[1]

\* The numeric frame of a file whose columns are all numeric.
numeric_frame(data) ==
    [k \in 1..Len(data.rows) |->
        [c \in AllColumns |-> to_numeric(data.rows[k][c])]]

NoValues == [c \in PosCols \cup VelCols |-> <<>>]

\* Lines 33-44, the body of the try statement: the exception it raises, or
\* the values it appends to the six lists.
try_body(content) ==
    LET read == dist_read_csv(content)
    IN  IF read.raised /= "none"
        THEN [raised |-> read.raised, values |-> NoValues]
        ELSE IF compute_velocity_error(read.df) /= "none"
        THEN [raised |-> compute_velocity_error(read.df), values |-> NoValues]
        ELSE LET df == data_distribution_compute_velocity(numeric_frame(read.df))
             IN  [raised |-> "none",
                  values |-> [c \in PosCols \cup VelCols |-> Column(df, c)]]

\* pd.Series(values).mean(): NaN for an empty Series.
series_mean(s) == IF s = <<>> THEN NaN ELSE FDiv(FSum(s), F(Len(s)))

\* pd.Series(values).var(): ddof = 1, NaN for fewer than two values.
series_var(s) ==
    IF Len(s) < 2 THEN NaN
    ELSE LET m == series_mean(s)
             sq == [k \in 1..Len(s) |-> FMul(FSub(s[k], m), FSub(s[k], m))]
         IN  FDiv(FSum(sq), F(Len(s) - 1))

\* Files with distinct increasing timestamps, n rows.
DistRows(n, shape) ==
    [k \in 1..n |->
        [timestamp |-> Cell(k - 1),
         tx |-> Cell(IF shape = "line" THEN k ELSE 0),
         ty |-> Cell(0),
         tz |-> Cell(IF shape = "line" THEN 2 * k ELSE 1)]]

\* A row with text in the tx column.
DistBadRow == [timestamp |-> Cell(1), tx |-> Malformed, ty |-> Cell(0), tz |-> Cell(0)]

DistContents ==
    {[columns |-> {}, rows |-> <<>>],
     [columns |-> {"timestamp", "tx", "ty"}, rows |-> DistRows(2, "line")],
     [columns |-> AllColumns, rows |-> <<DistRows(1, "line")[1], DistBadRow>>],
     [columns |-> AllColumns, rows |-> <<>>],
     [columns |-> AllColumns, rows |-> DistRows(2, "line")],
     [columns |-> AllColumns, rows |-> DistRows(MaxN, "rest")]}

DistEntries ==
    {[name |-> n, isfile |-> TRUE, content |-> c] : n \in FileNames, c \in DistContents}
    \cup {[name |-> "sub.csv", isfile |-> FALSE, content |-> [columns |-> {}, rows |-> <<>>]]}

DistListings ==
    {<<>>} \cup {<<e>> : e \in DistEntries}
    \cup {<<d, e>> : d, e \in {x \in DistEntries : x.name /= "notes.md"}}

DistIdle ==
    /\ dist_listing = <<>>
    /\ dist_files = <<>>
    /\ dist_i = 0
    /\ dist_pc = "idle"
    /\ dist_values = NoValues
    /\ dist_printed = <<>>
    /\ dist_stats = <<>>

DistInit ==
    /\ dist_listing \in {l \in DistListings : Len(l) < 2 \/ l[1].name /= l[2].name}
    /\ dist_files = <<>>
    /\ dist_i = 0
    /\ dist_pc = "start"
    /\ dist_values = NoValues
    /\ dist_printed = <<>>
    /\ dist_stats = <<>>

\* Lines 17-26: the files to read; return when there is none.
DistStart ==
    /\ dist_pc = "start"
    /\ dist_files' = SelectSeq(dist_listing,
                               LAMBDA e : e.isfile /\ endswith_csv_or_txt(e.name))
    /\ dist_pc' = IF dist_files' = <<>> THEN "returned" ELSE "loop"
    /\ dist_i' = 1
    /\ UNCHANGED <<dist_listing, dist_values, dist_printed, dist_stats>>
    /\ UNCHANGED distOthers

\* One iteration with the except clause removed: the exception leaves
\* process_files.
DistLoopStepNoExcept ==
    /\ dist_pc = "loop" /\ dist_i <= Len(dist_files)
    /\ \E r \in {try_body(dist_files[dist_i].content)} :
          IF r.raised /= "none"
          THEN /\ dist_pc' = "raised"
               /\ UNCHANGED <<dist_values, dist_printed, dist_i>>
          ELSE /\ dist_values' = [c \in PosCols \cup VelCols |->
                                     dist_values[c] \o r.values[c]]
               /\ dist_i' = dist_i + 1
               /\ UNCHANGED <<dist_printed, dist_pc>>
    /\ UNCHANGED <<dist_listing, dist_files, dist_stats>>
    /\ UNCHANGED distOthers

\* Lines 29-46: one iteration of the for loop, try and except.
DistLoopStep ==
    /\ dist_pc = "loop" /\ dist_i <= Len(dist_files)
    /\ \E r \in {try_body(dist_files[dist_i].content)} :
          IF r.raised /= "none"
          THEN /\ dist_printed' = Append(dist_printed,
                                         [file |-> dist_files[dist_i].name,
                                          e |-> r.raised])
               /\ UNCHANGED dist_values
          ELSE /\ dist_values' = [c \in PosCols \cup VelCols |->
                                     dist_values[c] \o r.values[c]]
               /\ UNCHANGED dist_printed
    /\ dist_i' = dist_i + 1
    /\ UNCHANGED <<dist_listing, dist_files, dist_pc, dist_stats>>
    /\ UNCHANGED distOthers

\* Lines 48-81: mean and variance of the six lists, printed and plotted.
DistReport ==
    /\ dist_pc = "loop" /\ dist_i > Len(dist_files)
    /\ dist_stats' = [c \in PosCols \cup VelCols |->
                         <<series_mean(dist_values[c]), series_var(dist_values[c])>>]
    /\ dist_pc' = "done"
    /\ UNCHANGED <<dist_listing, dist_files, dist_i, dist_values, dist_printed>>
    /\ UNCHANGED distOthers

(***************************************************************************)
(* generate_random_trajectories.py: generate_speed.                        *)
(***************************************************************************)
\* np.random.uniform(low, high) for the drawn fraction u of [0, 1):
\* low + (high - low) * u, also when high < low.
uniform(low, high, u) == FAdd(low, FMul(FSub(high, low), u))

\* generate_speed: the first branch returns a list, the second evaluates
\* np.random.uniform without returning its value, the third returns the
\* chosen draw.  u is the pair of fractions of the two draws, choice the
\* index np.random.choice picks.
generate_speed(min_s, max_s, u, choice) ==
    IF ~FLt(min_s, max_s)
    THEN [type |-> "list", value |-> NaN]
    ELSE IF \/ (~FLt(min_s, F(0)) /\ FLt(F(0), max_s))
            \/ (FLt(min_s, F(0)) /\ ~FLt(F(0), max_s))
    THEN [type |-> "NoneType", value |-> NaN]
    ELSE IF FLt(min_s, F(0)) /\ FLt(F(0), max_s)
    THEN [type |-> "float",
          value |-> <<uniform(min_s, Float(-1, 2), u[1]),
                      uniform(Float(1, 2), max_s, u[2])>>[choice + 1]]
    ELSE [type |-> "NoneType", value |-> NaN]

\* Speed ranges around zero, the range of the script among them.
SpeedBounds ==
    {F(-15), F(-1), Float(-1, 4), F(0), Float(1, 4), F(1), F(15)}

\* Fractions of [0, 1) a draw can take.
Fractions == {F(0), Float(1, 2), Float(3, 4)}

SpdIdle ==
    /\ min_speed = F(0)
    /\ max_speed = F(0)
    /\ spd_u = <<F(0), F(0)>>
    /\ spd_choice = 0
    /\ spd_pc = "idle"
    /\ spd_result = <<>>

SpdInit ==
    /\ min_speed \in SpeedBounds
    /\ max_speed \in SpeedBounds
    /\ spd_u \in Fractions \X Fractions
    /\ spd_choice \in {0, 1}
    /\ spd_pc = "call"
    /\ spd_result = <<>>

\* Line 217: generate_speed(min_speed, max_speed).
GenerateSpeed ==
    /\ spd_pc = "call"
    /\ spd_result' = generate_speed(min_speed, max_speed, spd_u, spd_choice)
    /\ spd_pc' = "returned"
    /\ UNCHANGED <<min_speed, max_speed, spd_u, spd_choice>>
    /\ UNCHANGED spdOthers

(***************************************************************************)
(* Specifications: one per script family.                                  *)
(***************************************************************************)
SegNext == MainLoopStep \/ MainSave \/ SingleMain

SegSpecInit == SegInit /\ VelIdle /\ StatIdle /\ ResIdle /\ CvIdle /\ RotIdle /\ GenIdle /\ DivIdle /\ DistIdle /\ SpdIdle

SpecSeg == SegSpecInit /\ [][SegNext]_vars

VelNext == ComputeVelocityForward \/ ComputeVelocityBackward \/ ComputeVelocityDropna

VelSpecInit == VelInit /\ SegIdle /\ StatIdle /\ ResIdle /\ CvIdle /\ RotIdle /\ GenIdle /\ DivIdle /\ DistIdle /\ SpdIdle

SpecVel == VelSpecInit /\ [][VelNext]_vars

StatNext ==
    \/ StatsReadFile
    \/ StatsCompute
    \/ StatsSave
    \/ StatsProcessFile
    \/ StatsPlot

StatSpecInit == StatInit /\ SegIdle /\ VelIdle /\ ResIdle /\ CvIdle /\ RotIdle /\ GenIdle /\ DivIdle /\ DistIdle /\ SpdIdle

ResNext ==
    \/ ResampleTrajectory
    \/ ResampleData

ResSpecInit == ResInit /\ SegIdle /\ VelIdle /\ StatIdle /\ CvIdle /\ RotIdle /\ GenIdle /\ DivIdle /\ DistIdle /\ SpdIdle

SpecRes == ResSpecInit /\ [][ResNext]_vars

CvNext ==
    \/ CvStart
    \/ CvProcessFile
    \/ CvFinish

CvSpecInit == CvInit /\ SegIdle /\ VelIdle /\ StatIdle /\ ResIdle /\ RotIdle /\ GenIdle /\ DivIdle /\ DistIdle /\ SpdIdle

SpecCv == CvSpecInit /\ [][CvNext]_vars

RotNext ==
    \/ GenerateNormalVector
    \/ NormalizeNormal
    \/ RotationMatrix

RotSpecInit == RotInit /\ SegIdle /\ VelIdle /\ StatIdle /\ ResIdle /\ CvIdle /\ GenIdle /\ DivIdle /\ DistIdle /\ SpdIdle

SpecRot == RotSpecInit /\ [][RotNext]_vars

GenNext ==
    \/ GenMakeDirs
    \/ GenLine
    \/ GenLinesDone

GenSpecInit ==
    GenInit /\ SegIdle /\ VelIdle /\ StatIdle /\ ResIdle /\ CvIdle /\ RotIdle /\ DivIdle /\ DistIdle /\ SpdIdle

SpecGen == GenSpecInit /\ [][GenNext]_vars

DivNext ==
    \/ DivLoopStep
    \/ DivSave

DivSpecInit ==
    DivInit /\ SegIdle /\ VelIdle /\ StatIdle /\ ResIdle /\ CvIdle /\ RotIdle /\ GenIdle /\ DistIdle /\ SpdIdle

SpecDiv == DivSpecInit /\ [][DivNext]_vars

DistNext ==
    \/ DistStart
    \/ DistLoopStep
    \/ DistReport

DistSpecInit ==
    DistInit /\ SegIdle /\ VelIdle /\ StatIdle /\ ResIdle /\ CvIdle /\ RotIdle /\ GenIdle /\ DivIdle /\ SpdIdle

SpecDist == DistSpecInit /\ [][DistNext]_vars

SpdNext == GenerateSpeed

SpdSpecInit ==
    SpdInit /\ SegIdle /\ VelIdle /\ StatIdle /\ ResIdle /\ CvIdle /\ RotIdle /\ GenIdle /\ DivIdle /\ DistIdle

SpecSpeed == SpdSpecInit /\ [][SpdNext]_vars

SpecStats == StatSpecInit /\ [][StatNext]_vars

(***************************************************************************)
(* Properties of the segmentation scripts (SpecSeg).                       *)
(***************************************************************************)
PositionMode == ~cv_flag /\ ~pv_flag

\* The trajectory files the loop has gone through, in listing order.
ProcessedFiles ==
    SelectSeq(SubSeq(listing, 1, idx - 1), LAMBDA e : endswith_csv_or_txt(e.name))

\* The DataFrame of a file that is cut into windows, and its channels.
WindowedFrame(entry) ==
    IF cv_flag /\ ~pv_flag THEN diff_over_dt_dropna(entry.rows) ELSE entry.rows

Channels == IF pv_flag THEN <<"vx", "vy", "vz">> ELSE <<"tx", "ty", "tz">>

ExpectedPairs(T) ==
    IF T >= inp_seg_len + out_seg_len THEN T - inp_seg_len - out_seg_len + 1 ELSE 0

\* process_trajectory raised on the file the loop stands at.
RaisedInProcessTrajectory ==
    /\ seg_pc = "raised"
    /\ \/ tool = "single"
       \/ tool = "multiple" /\ idx <= Len(listing)

\* C1: in position mode process_trajectory returns, for a trajectory of T
\* rows, exactly T - L_in - L_out + 1 segment pairs when T >= L_in + L_out
\* and 0 pairs otherwise.
C1_SegmentPairCount ==
    PositionMode =>
        /\ ~RaisedInProcessTrajectory
        /\ (tool = "single" /\ seg_pc = "saved") =>
              /\ npz.num_input_segments = ExpectedPairs(Len(listing[1].rows))
              /\ npz.num_output_segments = ExpectedPairs(Len(listing[1].rows))
        /\ tool = "multiple" =>
              \A j \in 1..Len(all_input_segments) :
                  /\ shape2(all_input_segments[j]) = ExpectedPairs(Len(ProcessedFiles[j].rows))
                  /\ shape2(all_output_segments[j]) = ExpectedPairs(Len(ProcessedFiles[j].rows))

\* C2: a file whose trajectory is shorter than L_in + L_out gives zero
\* segments without an error, and the batch goes on: the run is never
\* ended by an exception raised on such a file.
C2_ShortFileDoesNotAbort ==
    (/\ tool = "multiple"
     /\ idx <= Len(listing)
     /\ endswith_csv_or_txt(listing[idx].name)
     /\ Len(listing[idx].rows) < inp_seg_len + out_seg_len)
    => seg_pc /= "raised"

\* The tensors returned for one file are the windows of its frame.
WindowsOf(ins, outs, frame) ==
    /\ Len(ins) = 3 /\ Len(outs) = 3
    /\ \A c \in 1..3 :
          /\ Len(ins[c]) = inp_seg_len
          /\ Len(outs[c]) = out_seg_len
          /\ \A t \in 1..inp_seg_len : \A i \in 1..Len(ins[c][t]) :
                ins[c][t][i] = frame[(i - 1) + t][Channels[c]]
          /\ \A t \in 1..out_seg_len : \A i \in 1..Len(outs[c][t]) :
                outs[c][t][i] = frame[(i - 1) + inp_seg_len + t][Channels[c]]

\* C3: for every segment index i (counted from 0) the input window is rows
\* i .. i+L_in-1 and the output window the rows i+L_in .. i+L_in+L_out-1
\* that follow, of the same frame: input[c, t, i] is channel c of row i+t
\* and output[c, t, i] channel c of row i+L_in+t.
C3_WindowsAreConsecutiveRows ==
    /\ (tool = "single" /\ seg_pc = "saved") =>
          WindowsOf(npz.input_segments, npz.output_segments, WindowedFrame(listing[1]))
    /\ tool = "multiple" =>
          \A j \in 1..Len(all_input_segments) :
              WindowsOf(all_input_segments[j], all_output_segments[j],
                        WindowedFrame(ProcessedFiles[j]))

\* C3 witness: a position-mode run that saved at least two segments with
\* windows of different lengths.
C3_Witness ==
    /\ seg_pc = "saved" /\ PositionMode
    /\ inp_seg_len /= out_seg_len
    /\ npz.num_input_segments >= 2

RECURSIVE SumCounts(_)
SumCounts(files) ==
    IF files = <<>> THEN 0
    ELSE ExpectedPairs(Len(WindowedFrame(Head(files)))) + SumCounts(Tail(files))

\* Every value of segment g (input and output window) is a value of entry.
SegmentWithinFile(g, entry) ==
    LET frame == WindowedFrame(entry)
        vals == {frame[r][Channels[c]] : r \in 1..Len(frame), c \in 1..3}
    IN  \A c \in 1..3 :
          /\ \A t \in 1..inp_seg_len : npz.input_segments[c][t][g] \in vals
          /\ \A t \in 1..out_seg_len : npz.output_segments[c][t][g] \in vals

\* C4: in the batch script every window holds rows of one file only; the
\* saved tensors are the per-file tensors one after the other along the
\* segment axis, so the number of segments is the sum of the per-file
\* counts, the same for inputs and outputs.
C4_NoWindowAcrossFiles ==
    (tool = "multiple" /\ seg_pc = "saved") =>
        /\ npz.num_input_segments = SumCounts(ProcessedFiles)
        /\ npz.num_output_segments = npz.num_input_segments
        /\ \A j \in 1..Len(ProcessedFiles) :
              LET before == SumCounts(SubSeq(ProcessedFiles, 1, j - 1))
                  n == shape2(all_input_segments[j])
              IN  \A i \in 1..n : \A c \in 1..3 :
                    /\ \A t \in 1..inp_seg_len :
                          npz.input_segments[c][t][before + i]
                              = all_input_segments[j][c][t][i]
                    /\ \A t \in 1..out_seg_len :
                          npz.output_segments[c][t][before + i]
                              = all_output_segments[j][c][t][i]
        /\ \A g \in 1..npz.num_input_segments :
              \E j \in 1..Len(ProcessedFiles) : SegmentWithinFile(g, ProcessedFiles[j])

\* C4 witness: an archive saved from two files that both gave segments.
C4_Witness ==
    /\ tool = "multiple" /\ seg_pc = "saved" /\ PositionMode
    /\ Len(ProcessedFiles) = 2
    /\ npz.num_input_segments
         > ExpectedPairs(Len(ProcessedFiles[1].rows))
    /\ ExpectedPairs(Len(ProcessedFiles[1].rows)) > 0

NoTrajectoryFile == \A i \in 1..Len(listing) : ~endswith_csv_or_txt(listing[i].name)

\* C10: with no trajectory file in the input directory the batch tool
\* reports it and returns early: no exception, no output.
C10_EmptyDirectoryReturnsEarly ==
    (tool = "multiple" /\ NoTrajectoryFile) => (seg_raised = "none" /\ npz = <<>>)

(***************************************************************************)
(* Properties of the velocity routines (SpecVel).                          *)
(***************************************************************************)
\* C5: for a trajectory of N rows, duplicate timestamps and repeated
\* positions included, every velocity routine returns exactly N - 1 rows.
C5_VelocityHasNMinusOneRows ==
    (vel_routine \in {"forward", "backward", "dropna"} /\ Len(vel_df) >= 1)
    => Len(vel_out) = Len(vel_df) - 1

\* The quotient of the differences between rows a and b of vel_df.
Quotient(a, b, col) ==
    FDiv(FSub(vel_df[b][col], vel_df[a][col]),
         FSub(vel_df[b].timestamp, vel_df[a].timestamp))

\* Row out of the result carries the sample src and the velocity between
\* the consecutive samples a and a + 1.
VelocityRow(out, src, a) ==
    /\ out.timestamp = src.timestamp
    /\ out.tx = src.tx /\ out.ty = src.ty /\ out.tz = src.tz
    /\ out.vx = Quotient(a, a + 1, "tx")
    /\ out.vy = Quotient(a, a + 1, "ty")
    /\ out.vz = Quotient(a, a + 1, "tz")

\* A noiseless trajectory moving with velocity (1, 0, 0).
UnitVelocityAlongX(df) ==
    \A k \in 1..(Len(df) - 1) :
        /\ df[k + 1].timestamp[1] > df[k].timestamp[1]
        /\ FSub(df[k + 1].tx, df[k].tx) = FSub(df[k + 1].timestamp, df[k].timestamp)
        /\ df[k + 1].ty = df[k].ty
        /\ df[k + 1].tz = df[k].tz

\* C6: every velocity component is the difference of that position channel
\* between two consecutive rows over the difference of their timestamps
\* (forward: row k with k, k+1; backward: row k+1 with k, k+1), and a
\* noiseless trajectory of velocity (1, 0, 0) gives (1, 0, 0) in every row.
C6_VelocityIsDifferenceQuotient ==
    /\ vel_routine = "forward" =>
          /\ Len(vel_out) = (IF Len(vel_df) = 0 THEN 0 ELSE Len(vel_df) - 1)
          /\ \A k \in 1..Len(vel_out) : VelocityRow(vel_out[k], vel_df[k], k)
    /\ vel_routine = "backward" =>
          /\ Len(vel_out) = (IF Len(vel_df) = 0 THEN 0 ELSE Len(vel_df) - 1)
          /\ \A k \in 1..Len(vel_out) : VelocityRow(vel_out[k], vel_df[k + 1], k)
    /\ (vel_routine \in {"forward", "backward"} /\ UnitVelocityAlongX(vel_df)) =>
          \A k \in 1..Len(vel_out) :
              vel_out[k].vx = F(1) /\ vel_out[k].vy = F(0) /\ vel_out[k].vz = F(0)

\* C6 witness: the forward routine applied to three samples of a trajectory
\* of velocity (1, 0, 0).
C6_Witness ==
    /\ vel_routine = "forward"
    /\ Len(vel_df) = 3 /\ Len(vel_out) = 2
    /\ UnitVelocityAlongX(vel_df)
    /\ vel_out[2].vx = F(1)

(***************************************************************************)
(* Properties of compute_stats.py.                                         *)
(***************************************************************************)
StatsComputed == st_pc \in {"save", "pass2", "done"}

Identity3 == << <<F(1), F(0), F(0)>>, <<F(0), F(1), F(0)>>, <<F(0), F(0), F(1)>> >>

Zero3 == <<F(0), F(0), F(0)>>

\* The pooled position sample whitened with the stored mean and L_matrix.
WhitenedPool ==
    whiten(pos_stats.L_matrix, pos_stats.input_mean,
           values(Flatten(position_data), <<"tx", "ty", "tz">>))

\* C7: once compute_stats has run, L @ (x - mean) applied to the pooled
\* position sample the statistics were computed from has zero mean, unit
\* variance on every axis and zero cross-covariance.
C7_WhitenedPoolIsStandardised ==
    StatsComputed =>
        /\ mean(WhitenedPool) = Zero3
        /\ cov(WhitenedPool) = Identity3

\* The number of position rows in the files read so far.
RECURSIVE RowsRead(_)
RowsRead(n) == IF n = 0 THEN 0 ELSE Len(all_files[n].rows) + RowsRead(n - 1)

\* The squared norm of a max-normalized row is at most 1.
NormAtMostOne(r) ==
    LET sumsq == FAdd(FAdd(FMul(r.tx.num, r.tx.num), FMul(r.ty.num, r.ty.num)),
                      FMul(r.tz.num, r.tz.num))
    IN  ~FLt(r.tx.over_sqrt_of, sumsq)

\* C8: the pooled position sample holds every position row of every file
\* read, so max_length is at least the norm of every position row and every
\* max-normalized position that process_file writes has norm at most 1.
C8_MaxNormalizedWithinUnitBall ==
    /\ st_pc = "pass1" =>
          Len(Flatten(position_data)) = RowsRead(st_i - 1)
    /\ \A k \in 1..Len(st_csv) :
          st_csv[k].dir = "pos_max" =>
              \A i \in 1..Len(st_csv[k].rows) : NormAtMostOne(st_csv[k].rows[i])

\* The covariance of the pooled position sample is singular.
PooledCovarianceSingular ==
    /\ position_data /= <<>>
    /\ det(cov(values(Flatten(position_data), <<"tx", "ty", "tz">>))) = F(0)

\* C9: when the pooled covariance is singular the run ends with the
\* labelled ill-conditioned-input error, and no statistics are stored or
\* applied.
C9_SingularCovarianceIsLabelled ==
    (st_pc /= "pass1" /\ PooledCovarianceSingular) =>
        /\ st_pc = "raised"
        /\ st_raised = "IllConditionedInputError"
        /\ st_npz = <<>> /\ st_csv = <<>>

(***************************************************************************)
(* Properties of the resampling routines.                                  *)
(***************************************************************************)
Resampled == res_routine \in {"resample_trajectory", "resample_data"}

OriginalTimestamps == {res_df[i].timestamp : i \in 1..Len(res_df)}

\* The smallest and the largest original timestamp.
FirstTimestamp ==
    CHOOSE t \in OriginalTimestamps : \A u \in OriginalTimestamps : ~FLt(u, t)

LastTimestamp ==
    CHOOSE t \in OriginalTimestamps : \A u \in OriginalTimestamps : ~FLt(t, u)

MaxGrid == 8

\* The grid indices k whose point first + k * dt lies before the last
\* original timestamp.
GridIndices ==
    {k \in 0..MaxGrid : FLt(FAdd(FirstTimestamp, FMul(F(k), res_dt)), LastTimestamp)}

C13_InterpolatorGetsDistinctTimestamps ==
    Resampled =>
        /\ \A i \in 1..(Len(res_xp) - 1) : FLt(res_xp[i], res_xp[i + 1])
        /\ Len(res_xp) = Cardinality(OriginalTimestamps)

Survivors(cells) ==
    SelectSeq(cells, LAMBDA r : \A c \in EssentialCols : r[c].ok)

\* The difference quotient of column c between surviving rows k and k + 1.
GapVelocity(surv, k, c) ==
    FDiv(FSub(surv[k + 1][c].val, surv[k][c].val),
         FSub(surv[k + 1].timestamp.val, surv[k].timestamp.val))

\* No cell of the written row is NaN.
RowHasNoNaN(r) == \A c \in DOMAIN r : ~isnan(r[c])

\* C15: a row with a non-numeric timestamp, tx, ty or tz never reaches the
\* output of process_files: no written cell is NaN, and without resampling
\* the written rows are the surviving rows but the last, each with the
\* velocity towards the next surviving row.
C15_MalformedRowsAreDropped ==
    \A j \in 1..Len(cv_written) :
        LET surv == Survivors(cv_file_list[j].cells)
            rows == cv_written[j].rows
        IN  /\ \A k \in 1..Len(rows) : RowHasNoNaN(rows[k])
            /\ ~cv_resample =>
                  /\ Len(rows) = IF surv = <<>> THEN 0 ELSE Len(surv) - 1
                  /\ \A k \in 1..Len(rows) :
                        /\ rows[k].timestamp = surv[k].timestamp.val
                        /\ rows[k].vx = GapVelocity(surv, k, "tx")
                        /\ rows[k].vy = GapVelocity(surv, k, "ty")
                        /\ rows[k].vz = GapVelocity(surv, k, "tz")
                        /\ ~cv_velocity_only =>
                              /\ rows[k].tx = surv[k].tx.val
                              /\ rows[k].ty = surv[k].ty.val
                              /\ rows[k].tz = surv[k].tz.val

\* A file whose second row has a malformed tx was written without
\* resampling: the first output row spans the gap from row 1 to row 3.
C15_Witness ==
    /\ cv_written /= <<>>
    /\ ~cv_resample
    /\ Len(cv_written[1].rows) = CvRowCount - 2
    /\ ~cv_file_list[1].cells[2].tx.ok
    /\ cv_written[1].rows[1].vx = F(4)

\* The names in the directory that end in .csv or .txt.
TrajectoryNames ==
    {cv_dir[i].name : i \in {k \in 1..Len(cv_dir) : endswith_csv_or_txt(cv_dir[k].name)}}

\* C20: process_files writes one output file for every .csv and every
\* .txt file of the directory, and for no other file.
C20_EveryCsvAndTxtIsProcessed ==
    cv_pc = "done" =>
        /\ {cv_written[j].name : j \in 1..Len(cv_written)} = TrajectoryNames
        /\ Len(cv_written) = Cardinality(TrajectoryNames)

(***************************************************************************)
(* Properties of generate_random_trajectories.py.                          *)
(***************************************************************************)
\* C16: rotation_matrix_from_vectors returns a finite matrix for every
\* normal, also one parallel or anti-parallel to the source vector (0, 0, 1).
C16_RotationMatrixIsFinite ==
    rot_pc = "done" =>
        \A i \in 1..3 : \A j \in 1..3 : isfinite(rot_matrix[i][j])

\* C17: no file is written for a trajectory with fewer than --npoints
\* points, nor for an empty trajectory.
C17_ShortTrajectoryIsNotSaved ==
    \A k \in 1..Len(gen_files) :
        /\ gen_files[k].points >= gen_npoints
        /\ gen_files[k].points > 0

(***************************************************************************)
(* Properties of the spline data in the segment archive.                   *)
(***************************************************************************)
\* Channel c of window i of a tensor indexed [channel, time, segment].
WindowChannel(tensor, c, i) == [t \in 1..Len(tensor[c]) |-> tensor[c][t][i]]

\* C18: the archive holds, for every input and output window, a cubic
\* spline over the local sample index 0 .. length - 1 fitted to each of the
\* three channels of the window.
C18_SplineForEveryChannel ==
    seg_pc = "saved" =>
        /\ \A i \in 1..npz.num_input_segments :
              /\ npz.knots_input[i][1] = F(0)
              /\ npz.knots_input[i][Len(npz.knots_input[i])] = F(inp_seg_len - 1)
              /\ \A c \in 1..3 :
                    npz.coeffs_input[i].fit = WindowChannel(npz.input_segments, c, i)
        /\ \A i \in 1..npz.num_output_segments :
              /\ npz.knots_output[i][1] = F(0)
              /\ npz.knots_output[i][Len(npz.knots_output[i])] = F(out_seg_len - 1)
              /\ \A c \in 1..3 :
                    npz.coeffs_output[i].fit = WindowChannel(npz.output_segments, c, i)

(***************************************************************************)
(* Properties of trajectory_to_segmetns.py.                                *)
(***************************************************************************)
\* The rows of the file a segment_dict entry was made from.
DivRowsOf(name) ==
    div_listing[CHOOSE i \in 1..Len(div_listing) : div_listing[i].name = name].rows

\* The places (t, j) of the ty block of segments_2D that hold the value v.
DivPlaces(segments_2D, v) ==
    {<<t, j>> \in (1..div_seg_len) \X (1..Len(segments_2D[1])) :
        segments_2D[div_seg_len + t][j] = v}

\* C19: in position mode a file of T >= S rows yields exactly T div S
\* segments of S rows; segment j (counted from 0) is rows j*S .. (j+1)*S - 1,
\* every such row lies in exactly one segment and the trailing T mod S rows
\* lie in none.
C19_NonOverlappingSegments ==
    /\ \A m \in 1..Len(segment_dict) :
          LET rows == DivRowsOf(segment_dict[m][1])
              seg == segment_dict[m][2]
              T == Len(rows)
              S == div_seg_len
          IN  /\ T >= S
              /\ Len(seg) = 3 * S
              /\ \A r \in 1..(3 * S) : Len(seg[r]) = T \div S
              /\ \A c \in 1..3 : \A t \in 1..S : \A j \in 1..(T \div S) :
                    seg[(c - 1) * S + t][j] = rows[(j - 1) * S + t][<<"tx", "ty", "tz">>[c]]
              /\ \A k \in 1..T :
                    Cardinality(DivPlaces(seg, rows[k].ty)) =
                        IF k <= T - (T % S) THEN 1 ELSE 0
    /\ (div_pc = "raised" /\ ~div_cv) => Len(div_listing[div_i].rows) < div_seg_len

\* A saved run that cut a file into at least two segments and left
\* trailing rows out.
C19_Witness ==
    /\ div_pc = "saved"
    /\ segment_dict /= <<>>
    /\ Len(segment_dict[1][2][1]) >= 2
    /\ Len(DivRowsOf(segment_dict[1][1])) % div_seg_len /= 0
    /\ div_seg_len >= 2

(***************************************************************************)
(* Order of the steps of compute_stats_and_transform.                      *)
(***************************************************************************)
\* The four frames process_file yields for file m with the archived
\* statistics.
TransformedWithArchive(m) ==
    process_file(all_files[m].rows,
                 st_npz[1].data.input_mean, st_npz[1].data.L_matrix,
                 st_npz[2].data.input_mean, st_npz[2].data.L_matrix,
                 st_npz[1].data.max_length, st_npz[2].data.max_velocity)

\* Both archives are on disk whenever a transformed file is, and the
\* transformed files of file m are those of the archived statistics.
ArchivesPrecedeTransforms ==
    st_csv /= <<>> =>
        /\ Len(st_npz) = 2
        /\ \A m \in 1..(Len(st_csv) \div 4) :
              /\ st_csv[4 * m - 3].rows = TransformedWithArchive(m).white_pos
              /\ st_csv[4 * m - 2].rows = TransformedWithArchive(m).white_vel
              /\ st_csv[4 * m - 1].rows = TransformedWithArchive(m).max_pos
              /\ st_csv[4 * m].rows = TransformedWithArchive(m).max_vel

\* The statistics are assigned by one step only, taken after the first loop
\* has read every file.
StatsAssignedOnce ==
    (pos_stats' /= pos_stats \/ vel_stats' /= vel_stats) =>
        /\ st_pc = "pass1" /\ st_pc' = "save"
        /\ Len(position_data) = Len(all_files)
        /\ pos_stats = <<>> /\ vel_stats = <<>>

\* The statistics, the maxima and the archives do not change in the second
\* pass.
StatsFrozenInSecondPass ==
    st_pc \in {"pass2", "done"} =>
        UNCHANGED <<pos_stats, vel_stats, max_pos_length, max_vel_magnitude, st_npz>>

\* C21: the statistics are computed exactly once, from all input files;
\* both archives are written before the first transformed file; every file
\* of the second pass is transformed with the same mean, L matrix and
\* maximum, which do not change during that pass.
C21_StatsComputedOnceThenFixed ==
    /\ []ArchivesPrecedeTransforms
    /\ [][StatsAssignedOnce /\ StatsFrozenInSecondPass]_vars

\* A run over two files has written all eight transformed files.
C21_Witness ==
    /\ st_pc = "done"
    /\ Len(all_files) = 2
    /\ Len(st_csv) = 8

(***************************************************************************)
(* data_distribution.process_files: a failing file does not end the run.   *)
(***************************************************************************)
\* The files before the loop position whose try body raises / does not.
DistFailing ==
    SelectSeq(SubSeq(dist_files, 1, dist_i - 1),
              LAMBDA e : try_body(e.content).raised /= "none")

DistPassing ==
    SelectSeq(SubSeq(dist_files, 1, dist_i - 1),
              LAMBDA e : try_body(e.content).raised = "none")

\* C22: an exception raised while reading or processing one file is caught
\* and reported, and every remaining file is still processed: the run is
\* never left by the exception, each file before the loop position was
\* either reported or has its values in the lists, and the run reaches its
\* report only after the loop has passed every file.
C22_FailingFileDoesNotAbortBatch ==
    /\ dist_pc \in {"idle", "start", "loop", "done", "returned"}
    /\ dist_pc \in {"loop", "done"} =>
          /\ [k \in 1..Len(dist_printed) |-> dist_printed[k].file]
                = [k \in 1..Len(DistFailing) |-> DistFailing[k].name]
          /\ \A c \in PosCols \cup VelCols :
                dist_values[c]
                   = Flatten([k \in 1..Len(DistPassing) |->
                                 try_body(DistPassing[k].content).values[c]])
    /\ dist_pc = "done" => dist_i = Len(dist_files) + 1

\* A failing file came first and the file after it was read: its values are
\* in the lists.
C22_Witness ==
    /\ dist_pc = "done"
    /\ Len(dist_files) = 2
    /\ try_body(dist_files[1].content).raised = "KeyError"
    /\ try_body(dist_files[2].content).raised = "none"
    /\ Len(dist_printed) = 1
    /\ Len(dist_values["vx"]) = 1

(***************************************************************************)
(* generate_speed.                                                         *)
(***************************************************************************)
\* C29: for min_speed < max_speed generate_speed returns a number within
\* [min_speed, max_speed]; it returns a non-number only for
\* min_speed >= max_speed.
C29_SpeedWithinRange ==
    spd_pc = "returned" =>
        IF FLt(min_speed, max_speed)
        THEN /\ spd_result.type = "float"
             /\ ~FLt(spd_result.value, min_speed)
             /\ ~FLt(max_speed, spd_result.value)
        ELSE spd_result.type /= "float"

(***************************************************************************)
(* Forward and backward differences of one trajectory.                     *)
(***************************************************************************)
StrictlyIncreasing(df) ==
    \A k \in 1..(Len(df) - 1) : FLt(df[k].timestamp, df[k + 1].timestamp)

VelocityVectors(out) == [k \in 1..Len(out) |-> <<out[k].vx, out[k].vy, out[k].vz>>]

\* The two results agree on the velocities; row k of the forward result is
\* attached to sample k and row k of the backward result to sample k + 1.
ForwardMatchesBackward(df, fwd, bwd) ==
    /\ Len(fwd) = Len(df) - 1
    /\ Len(bwd) = Len(df) - 1
    /\ VelocityVectors(fwd) = VelocityVectors(bwd)
    /\ \A k \in 1..(Len(df) - 1) :
          /\ \A c \in {"timestamp", "tx", "ty", "tz"} :
                fwd[k][c] = df[k][c] /\ bwd[k][c] = df[k + 1][c]
          /\ \A c \in VelCols : isfinite(fwd[k][c])

\* C23: on a trajectory with strictly increasing timestamps the forward
\* routine (compute_velocity.py) and the backward routine
\* (data_distribution.py) give the same N-1 velocity vectors, attached to
\* sample k by the forward and to sample k+1 by the backward routine.
C23_ForwardEqualsBackward ==
    (Len(vel_df) >= 1 /\ StrictlyIncreasing(vel_df)) =>
        /\ vel_routine = "forward" =>
              ForwardMatchesBackward(vel_df, vel_out,
                                     data_distribution_compute_velocity(vel_df))
        /\ vel_routine = "backward" =>
              ForwardMatchesBackward(vel_df, compute_velocity(vel_df), vel_out)

\* Three samples with different velocities on the two intervals, processed
\* by the backward routine.
C23_Witness ==
    /\ vel_routine = "backward"
    /\ Len(vel_df) = 3
    /\ StrictlyIncreasing(vel_df)
    /\ Len(vel_out) = 2
    /\ vel_out[1].vx /= vel_out[2].vx

(***************************************************************************)
(* trajectory_to_segmetns.py with --compute_velocity.                      *)
(***************************************************************************)
\* What segmenting the derived velocity series of a file would store.
VelocitySegmentsOf(entry) ==
    divide_into_segments(trajectory_to_segmetns_compute_velocity(read_trajectory(entry)),
                         div_seg_len, FALSE)

\* C24: with compute_velocity=True divide_into_segments segments the
\* velocity series derived from the trajectory (T-1 rows) and returns
\* normally.
C24_VelocityModeSegmentsVelocities ==
    div_cv =>
        /\ div_raised /= "TypeError"
        /\ \A k \in 1..Len(segment_dict) :
              \E e \in {div_listing[j] : j \in 1..Len(div_listing)} :
                  /\ e.name = segment_dict[k][1]
                  /\ VelocitySegmentsOf(e).raised = "none"
                  /\ segment_dict[k][2] = reshape_2D(VelocitySegmentsOf(e).segments)

(***************************************************************************)
(* compute_stats_and_transform: nothing is written when compute_stats      *)
(* raises.                                                                 *)
(***************************************************************************)
NothingWritten == st_dirs = {} /\ st_npz = <<>> /\ st_csv = <<>>

\* C25: if compute_stats raises (matrix inversion or Cholesky), the run
\* ends with no output directory, no stats archive and no transformed file:
\* every write happens only after compute_stats has returned.
C25_NoWriteBeforeStatistics ==
    /\ st_pc = "raised" => NothingWritten
    /\ ~NothingWritten => (pos_stats /= <<>> /\ vel_stats /= <<>>)

\* A run in which compute_stats raised after the first loop read a file.
C25_Witness ==
    /\ st_pc = "raised"
    /\ st_raised /= "none"
    /\ Len(position_data) >= 1
    /\ NothingWritten

(***************************************************************************)
(* process_file: the timestamps of the two velocity files.                 *)
(***************************************************************************)
\* C26: for every input file the whitened-velocity file and the
\* max-normalized-velocity file have the same number of rows and identical
\* timestamp columns, each row carrying the timestamp of the later of the
\* two samples it was differenced from.
C26_VelocityFilesShareTimestamps ==
    \A m \in 1..(Len(st_csv) \div 4) :
        LET white == st_csv[4 * m - 2].rows
            maxn  == st_csv[4 * m].rows
        IN  /\ Len(white) = Len(maxn)
            /\ Column(white, "timestamp") = Column(maxn, "timestamp")
            /\ \A k \in 1..Len(white) :
                  white[k].timestamp = all_files[m].rows[k + 1].timestamp

(***************************************************************************)
(* process_multiple_trajectories.py: the spline lists and the tensors.     *)
(***************************************************************************)
\* The number of windows in a list of per-file tensors.
RECURSIVE StoredSegments(_)
StoredSegments(tensors) ==
    IF tensors = <<>> THEN 0
    ELSE Len(Head(tensors)[1][1]) + StoredSegments(Tail(tensors))

\* The spline of channel 0 of window i of a tensor.
FitOfWindow(tensor, seg_len, i) ==
    splrep(arange(seg_len), WindowChannel(tensor, 1, i), SplineK)

\* C27: the spline lists stay aligned with the concatenated tensors: the
\* number of stored knot/coefficient entries equals num_input_segments and
\* num_output_segments, and entry i is the fit of channel 0 of the window
\* stored at segment index i, so the indexing at save time stays in range.
C27_SplineListsAlignedWithTensors ==
    /\ (tool = "multiple" /\ seg_pc \in {"loop", "saved"}) =>
          /\ Len(all_knots_input) = StoredSegments(all_input_segments)
          /\ Len(all_coeffs_input) = StoredSegments(all_input_segments)
          /\ Len(all_knots_output) = StoredSegments(all_output_segments)
          /\ Len(all_coeffs_output) = StoredSegments(all_output_segments)
    /\ (tool = "multiple" /\ seg_pc = "saved") =>
          /\ npz.num_input_segments = Len(all_knots_input)
          /\ npz.num_output_segments = Len(all_knots_output)
          /\ \A i \in 1..npz.num_input_segments :
                /\ npz.knots_input[i] = FitOfWindow(npz.input_segments, inp_seg_len, i).t
                /\ npz.coeffs_input[i] = FitOfWindow(npz.input_segments, inp_seg_len, i).c
          /\ \A i \in 1..npz.num_output_segments :
                /\ npz.knots_output[i] = FitOfWindow(npz.output_segments, out_seg_len, i).t
                /\ npz.coeffs_output[i] = FitOfWindow(npz.output_segments, out_seg_len, i).c

\* Two files were saved, each with at least one window, and the first and
\* the last stored window differ on channel 0.
C27_Witness ==
    /\ tool = "multiple" /\ seg_pc = "saved"
    /\ Len(all_input_segments) = 2
    /\ npz.num_input_segments >= 3
    /\ WindowChannel(npz.input_segments, 1, 1)
          /= WindowChannel(npz.input_segments, 1, npz.num_input_segments)
    /\ npz.coeffs_input[1] /= npz.coeffs_input[npz.num_input_segments]

(***************************************************************************)
(* process_trajectory on the derived velocity series.                      *)
(***************************************************************************)
VelocityMode == cv_flag /\ ~pv_flag

ExpectedVelocityPairs(T) ==
    IF T > inp_seg_len + out_seg_len THEN T - inp_seg_len - out_seg_len ELSE 0

\* C28: with compute_velocity on and precomputed_velocity off,
\* process_trajectory windows the derived velocity series, one row shorter
\* than the trajectory, so a trajectory of T rows yields T - L_in - L_out
\* segment pairs, and 0 pairs when T <= L_in + L_out.
C28_VelocityModePairCount ==
    VelocityMode =>
        /\ ~RaisedInProcessTrajectory
        /\ (tool = "single" /\ seg_pc = "saved") =>
              /\ Len(WindowedFrame(listing[1])) = Len(listing[1].rows) - 1
              /\ npz.num_input_segments = ExpectedVelocityPairs(Len(listing[1].rows))
              /\ npz.num_output_segments = ExpectedVelocityPairs(Len(listing[1].rows))
        /\ tool = "multiple" =>
              \A j \in 1..Len(all_input_segments) :
                  /\ Len(WindowedFrame(ProcessedFiles[j])) = Len(ProcessedFiles[j].rows) - 1
                  /\ shape2(all_input_segments[j])
                        = ExpectedVelocityPairs(Len(ProcessedFiles[j].rows))
                  /\ shape2(all_output_segments[j])
                        = ExpectedVelocityPairs(Len(ProcessedFiles[j].rows))

====
